---- MODULE Spec2Model ----
(***************************************************************************)
(* ember-headless-table: the plugin registry of a Table (its memoized      *)
(* `plugins` getter and `pluginOf`), the metadata cache (`meta.forTable`,  *)
(* `meta.forColumn`, `meta.forRow` over TABLE_META / COLUMN_META /         *)
(* ROW_META), the feature resolver (`meta.withFeature`), the options       *)
(* resolver (`options`), the preferences facade (`preferences`) and the    *)
(* column meta of the StickyColumns plugin.                                *)
(*                                                                         *)
(* `assert` is @ember/debug's: a failed assertion throws at the call site. *)
(***************************************************************************)
EXTENDS Integers, Sequences, FiniteSets, TLC

VARIABLES
    TABLE_KEY,               \* table -> its identity key, table[TABLE_KEY]
    owner,                   \* table -> whether getOwner(table) yields an owner
    args,                    \* table -> the tracked `args` field ({ named })
    preferences,             \* table -> the `preferences` field
    scrollContainerElement,  \* table -> the attached scroll container
    cachedPlugins,           \* table -> the memo of the @cached `plugins` getter
    columns,                 \* table -> the current Column list
    rows,                    \* table -> the current Row list
    heap,                    \* Column / Row objects no longer listed, still referenced
    TABLE_META,              \* Map<string, Map<Class, meta>>
    COLUMN_META,             \* WeakMap<Column, Map<Class, meta>>
    ROW_META,                \* WeakMap<Row, Map<Class, meta>>
    evaluations,             \* table -> how often the body of `plugins` has returned
    storage,                 \* table -> table.preferences.storage
    persists,                \* table -> how often table.preferences.persist() has run
    persisted,               \* table -> the storage as persist() last handed it on
    columnConfig,            \* column key -> the pluginOptions of its configuration
    widths,                  \* column key -> the `width` of its 'columnWidth' meta
    hidden,                  \* keys of the columns the 'columnVisibility' provider hides
    offsets                  \* sticky ColumnMeta -> the memo of its @cached `offset`

vars == <<TABLE_KEY, owner, args, preferences, scrollContainerElement, cachedPlugins,
          columns, rows, heap, TABLE_META, COLUMN_META, ROW_META,
          evaluations, storage, persists, persisted, columnConfig, widths, hidden, offsets>>

\* the state of the tables' preferences, and of the layout of their columns
prefs == <<storage, persists, persisted>>

layout == <<columnConfig, widths, hidden, offsets>>

(***************************************************************************)
(* Bounds of the exploration.                                              *)
(***************************************************************************)
MaxEvaluations == 2
MaxEntities == 2
MaxMetas == 2
MaxPersists == 2

Tables == {"t1", "t2"}

\* the table the single-table exploration drives; the other stays as constructed
Driven == {"t1"}

(***************************************************************************)
(* Plugin classes.  BasePlugin is the abstract base every plugin extends;  *)
(* StickyColumns is the repository's; the others are the plugins a table   *)
(* is configured with here: a provider of 'columnWidth', a provider of     *)
(* 'columnVisibility', and a subclass of the latter whose instances        *)
(* declare their own `features`; Bare is a plugin class that declares      *)
(* neither features nor `meta`.                                            *)
(***************************************************************************)
Classes == {"BasePlugin", "Widths", "Visibility", "SubVisibility", "StickyColumns", "Bare"}

Features == {"columnWidth", "columnVisibility", "columnOrder"}

\* class K extends Extends(K); BasePlugin extends nothing ("Object")
Extends(K) ==
    CASE K = "SubVisibility" -> "Visibility"
      [] K = "BasePlugin" -> "Object"
      [] OTHER -> "BasePlugin"

\* K is `klass` or derives from it (the prototype chain `instanceof` walks)
RECURSIVE DerivesFrom(_, _)
DerivesFrom(K, klass) ==
    IF K = klass THEN TRUE
    ELSE IF K = "Object" THEN FALSE
    ELSE DerivesFrom(Extends(K), klass)

\* plugin instanceof klass
instanceof(plugin, klass) == DerivesFrom(plugin.klass, klass)

\* `static features?: string[]`, inherited by subclasses; <<>> stands for undefined
StaticFeatures(K) ==
    CASE K = "Widths" -> <<"columnWidth">>
      [] K \in {"Visibility", "SubVisibility"} -> <<"columnVisibility">>
      [] OTHER -> <<>>

\* `static requires?: string[]`
StaticRequires(K) ==
    IF K = "StickyColumns" THEN <<"columnWidth", "columnVisibility">> ELSE <<>>

\* whether instances of K carry a `features` field of their own, and its value
HasInstanceFeatures(K) == K = "SubVisibility"
InstanceFeatures(K) == IF K = "SubVisibility" THEN <<"columnWidth">> ELSE <<>>

\* plugin classes whose meta constructors call the meta accessor for the entity and
\* class they are being constructed for: NestedOnce does so unless a construction
\* for that entity is under way already, NestedAlways does so every time
NestedClasses == {"NestedOnce", "NestedAlways"}

Reenters(K) ==
    CASE K = "NestedOnce" -> "once"
      [] K = "NestedAlways" -> "always"
      [] OTHER -> "never"

\* the scopes for which instances of K declare a factory in `meta`
MetaFactories(K) ==
    CASE K = "Widths" -> {"table", "column", "row"}
      [] K \in NestedClasses -> {"table", "column"}
      [] K = "SubVisibility" -> {"table", "column", "row"}
      [] K \in {"Visibility", "StickyColumns"} -> {"table", "column"}
      [] OTHER -> {}

\* whether instances of K declare `meta` at all
HasMeta(K) == MetaFactories(K) # {}

\* the `plugins` lists a table is configured with
PluginConfigs ==
    { <<>>,
      <<"Widths">>,
      <<"Widths", "StickyColumns">>,
      <<"Widths", "Visibility", "StickyColumns">>,
      <<"Widths", "SubVisibility", "Visibility">> }

\* Entries of a `plugins` list other than a plain class reference: the tuples
\* Widths.with(provider) and a plugin given as an object
ProviderOf(entry) ==
    CASE entry = "Widths.with(compact)" -> "compact"
      [] entry = "Widths.with(wide)" -> "wide"
      [] entry = "Widths.with(nothing)" -> "nothing"
      [] OTHER -> "defaultOptions"

\* the first element of the entry as a tuple: its class, or the plugin object
ClassOf(entry) ==
    IF entry \in {"Widths.with(compact)", "Widths.with(wide)", "Widths.with(nothing)"}
    THEN "Widths" ELSE entry

\* what an options provider returns when it is called: <<object>>, an object being
\* the set of its <<property, value>> pairs, or <<>> for undefined
CallProvider(fn) ==
    CASE fn = "compact" -> <<{<<"density", "compact">>}>>
      [] fn = "wide" -> <<{<<"density", "wide">>}>>
      [] fn = "defaultOptions" -> <<{}>>
      [] fn = "left" -> <<{<<"sticky", "left">>}>>
      [] fn = "right" -> <<{<<"sticky", "right">>}>>
      [] fn = "false" -> <<{<<"sticky", "false">>}>>
      [] fn = "middle" -> <<{<<"sticky", "middle">>}>>
      [] fn = "unset" -> <<{<<"isResizable", "true">>}>>
      [] OTHER -> <<>>

\* the `plugins` lists of the exploration of tuples and plugin objects
EntryConfigs ==
    { <<"plainObject">>,
      <<"plainObject", "Widths.with(compact)">>,
      <<"Bare", "Widths.with(wide)">>,
      <<"Widths.with(nothing)">> }

\* the `plugins` lists of the exploration of meta constructors that call the
\* accessor they are constructed by
NestedConfigs == {<<"NestedOnce">>, <<"Widths", "NestedAlways">>, <<"NestedOnce", "NestedAlways">>}

\* the configurations of the two-table exploration
TableConfigs == {<<"Widths", "Visibility", "StickyColumns">>}

ColumnKeys == <<"name">>

RowKeys == <<"r1">>

\* the columns of the table of the sticky exploration
StickyKeys == <<"first", "middle", "last">>

\* the place of `x` in the sequence `s`
IndexIn(s, x) == CHOOSE i \in DOMAIN s : s[i] = x

\* their sticky options, column by column: the provider of the StickyColumns
\* tuple of the column's pluginOptions, or "absent" for a column without
\* pluginOptions
StickyOptions ==
    { <<"left", "left", "right">>,
      <<"absent", "left", "right">>,
      <<"false", "right", "left">>,
      <<"unset", "middle", "right">> }

PluginOptions(provider) ==
    IF provider = "absent" THEN <<>> ELSE << << <<"StickyColumns", provider>> >> >>

\* the width property of the 'columnWidth' meta of a column: a number, undefined,
\* or a meta without the property
Width(n) == [has |-> TRUE, width |-> <<n>>]

UndefinedWidth == [has |-> TRUE, width |-> <<>>]

NoWidth == [has |-> FALSE, width |-> <<>>]

ColumnWidths ==
    { <<Width(50), Width(100), Width(75)>>,
      <<UndefinedWidth, Width(100), Width(75)>>,
      <<Width(50), NoWidth, Width(75)>> }

\* column.config.pluginOptions, which the `columns` function of the configuration
\* yields for a column: <<list>> of [class, provider] tuples (provider "none": a
\* tuple without a second element), or <<>> when the property is not given. The
\* configuration that replaces the first one of column "name" gives none
ColumnConfig(column) ==
    CASE column.key \in DOMAIN columnConfig -> [pluginOptions |-> columnConfig[column.key]]
      [] column.key = "name" /\ column.id = 1 ->
             [pluginOptions |-> << << <<"Widths", "compact">>, <<"Visibility", "nothing">>,
                                      <<"StickyColumns", "none">> >> >>]
      [] OTHER -> [pluginOptions |-> <<>>]

(***************************************************************************)
(* Values.                                                                 *)
(***************************************************************************)
guidFor(t) == "ember-" \o t

EmptyMap == [k \in {} |-> {}]

Has(map, k) == k \in DOMAIN map

MapSet(map, k, v) == [x \in DOMAIN map \cup {k} |-> IF x = k THEN v ELSE map[x]]

MapDrop(map, ks) == [x \in DOMAIN map \ ks |-> map[x]]

NoEntity == [kind |-> "none", table |-> "none", key |-> "none", id |-> 0]

NoPlugin == [klass |-> "none", table |-> "none", owner |-> FALSE, evaluation |-> 0, index |-> 0]

NoMeta == [scope |-> "none", entity |-> NoEntity, key |-> "none", n |-> 0, plugin |-> NoPlugin]

RECURSIVE Sum(_, _)
Sum(f, S) == IF S = {} THEN 0 ELSE LET x == CHOOSE x \in S : TRUE IN f[x] + Sum(f, S \ {x})

NoArgs == [set |-> FALSE, named |-> [plugins |-> <<>>]]

TableRef(t) == [kind |-> "table", table |-> t, key |-> TABLE_KEY[t], id |-> 1]

SeqToSet(s) == {s[i] : i \in DOMAIN s}

RECURSIVE Flat(_)
Flat(ss) == IF ss = <<>> THEN <<>> ELSE Head(ss) \o Flat(Tail(ss))

RECURSIVE Join(_)
Join(s) ==
    IF Len(s) = 1 THEN s[1] ELSE s[1] \o ", " \o Join(Tail(s))


\* `name` of an instance of K (StickyColumns: plugin.ts:31), and K.name
Name(K) == IF K = "StickyColumns" THEN "sticky-columns" ELSE K

(***************************************************************************)
(* Plugin Registry: Table.plugins (a @cached getter over the tracked       *)
(* `args`) and Table.pluginOf.                                             *)
(***************************************************************************)

\* plain class references become [class, options provider] tuples
normalizePluginsConfig(plugins) ==
    [i \in DOMAIN plugins |-> <<ClassOf(plugins[i]), ProviderOf(plugins[i])>>]

\* typeof PluginClass === 'function'
IsClass(PluginClass) == PluginClass \in Classes \cup NestedClasses

\* a plugin given as an object: it is the element of the list as it is
PlainPlugin(object) ==
    [klass |-> "Object", table |-> "none", owner |-> FALSE, evaluation |-> 0, index |-> 0]

\* the requirements of tuple i that no other configured plugin's features satisfy
Unsatisfied(normalized, i) ==
    LET req == StaticRequires(normalized[i][1])
    IN  SelectSeq(req, LAMBDA r :
            ~ \E j \in DOMAIN normalized :
                j # i /\ r \in SeqToSet(StaticFeatures(normalized[j][1])))

\* every `requires` of every configured plugin must be provided by a configured plugin
verifyPlugins(normalized) ==
    LET bad == {i \in DOMAIN normalized : Unsatisfied(normalized, i) # <<>>}
    IN  IF bad = {} THEN [ok |-> TRUE, error |-> ""]
        ELSE LET i == CHOOSE k \in bad : \A j \in bad : k <= j
             IN  [ok |-> FALSE,
                  error |-> "Configuration is missing requirement: "
                            \o Unsatisfied(normalized, i)[1]
                            \o ", And is requested by " \o normalized[i][1]]

\* mutant: `new PluginClass(this)` without setOwner
NewPluginNoOwner(t, PluginClass, i) ==
    [klass |-> PluginClass, table |-> t, owner |-> FALSE,
     evaluation |-> evaluations[t] + 1, index |-> i]

\* `new PluginClass(this)` followed by setOwner(plugin, owner): a new object, told
\* from every other plugin by the evaluation that constructed it and its place in it
NewPlugin(t, PluginClass, i) ==
    [klass |-> PluginClass, table |-> t, owner |-> owner[t],
     evaluation |-> evaluations[t] + 1, index |-> i]

\* the body with the plugin classes constructed before the configuration is verified
PluginsBodyConstructFirst(t) ==
    LET normalized == normalizePluginsConfig(args[t].named.plugins)
        verified == verifyPlugins(normalized)
        classes == {i \in DOMAIN normalized : IsClass(normalized[i][1])}
    IN  IF ~args[t].set
        THEN [status |-> "error", error |-> "TypeError", value |-> <<>>, built |-> 0]
        ELSE IF classes # {} /\ ~owner[t]
        THEN [status |-> "error",
              error |-> "The Table does not have an owner. cannot create a plugin without an owner",
              value |-> <<>>, built |-> 1]
        ELSE IF ~verified.ok
        THEN [status |-> "error", error |-> verified.error, value |-> <<>>,
              built |-> Cardinality(classes)]
        ELSE [status |-> "ok", error |-> "",
              value |-> [i \in DOMAIN normalized |->
                            IF i \in classes THEN NewPlugin(t, normalized[i][1], i)
                            ELSE PlainPlugin(normalized[i][1])],
              built |-> Cardinality(classes)]

\* the body of the `plugins` getter: normalize, verify, then construct in order;
\* `built` counts the plugin classes constructed before it returned or threw
PluginsBody(t) ==
    LET normalized == normalizePluginsConfig(args[t].named.plugins)
        verified == verifyPlugins(normalized)
        classes == {i \in DOMAIN normalized : IsClass(normalized[i][1])}
    IN  IF ~args[t].set
        THEN [status |-> "error", error |-> "TypeError", value |-> <<>>, built |-> 0]
        ELSE IF ~verified.ok
        THEN [status |-> "error", error |-> verified.error, value |-> <<>>, built |-> 0]
        ELSE IF classes # {} /\ ~owner[t]
        THEN [status |-> "error",
              error |-> "The Table does not have an owner. cannot create a plugin without an owner",
              value |-> <<>>, built |-> 1]
        ELSE [status |-> "ok", error |-> "",
              value |-> [i \in DOMAIN normalized |->
                            IF i \in classes THEN NewPlugin(t, normalized[i][1], i)
                            ELSE PlainPlugin(normalized[i][1])],
              built |-> Cardinality(classes)]

\* table.plugins without the memo: the body runs on every read
PluginsGetterUncached(t) ==
    LET r == PluginsBody(t)
    IN  [status |-> r.status, error |-> r.error, value |-> r.value, built |-> r.built,
         memo |-> IF r.status = "ok"
                  THEN [valid |-> TRUE, value |-> r.value]
                  ELSE cachedPlugins[t]]

\* table.plugins: the memo while it is valid, else the body, memoized when it returns
PluginsGetter(t) ==
    IF cachedPlugins[t].valid
    THEN [status |-> "ok", error |-> "", value |-> cachedPlugins[t].value, built |-> 0,
          memo |-> cachedPlugins[t]]
    ELSE LET r == PluginsBody(t)
         IN  [status |-> r.status, error |-> r.error, value |-> r.value, built |-> r.built,
              memo |-> IF r.status = "ok"
                       THEN [valid |-> TRUE, value |-> r.value]
                       ELSE cachedPlugins[t]]

\* Array.prototype.find: the first of the elements at `hits`, as a sequence of
\* length 1, or <<>> (undefined) when there is none
Find(list, hits) ==
    IF hits = {} THEN <<>>
    ELSE <<list[CHOOSE i \in hits : \A j \in hits : i <= j]>>

\* mutant: pluginOf that looks for an element whose class is exactly `klass`
pluginOfExact(list, klass) ==
    Find(list, {i \in DOMAIN list : list[i].klass = klass})

\* table.pluginOf(klass) over the list `plugins` returned: <<plugin>> or <<>> (undefined)
pluginOf(list, klass) ==
    Find(list, {i \in DOMAIN list : instanceof(list[i], klass)})


(***************************************************************************)
(* Options Resolver: options.forTable and options.forColumn.               *)
(***************************************************************************)

\* `fn() ?? {}`
OrEmpty(result) == IF result = <<>> THEN {} ELSE result[1]

Options(object) == [status |-> "ok", error |-> "", value |-> <<object>>]

\* mutant: the options of a plugin are those of the tuple it was constructed from,
\* known only while the list of plugins is memoized
optionsForTableBound(t, klass) ==
    IF ~args[t].set THEN [status |-> "error", error |-> "TypeError", value |-> <<>>]
    ELSE LET normalized == normalizePluginsConfig(args[t].named.plugins)
             tuple == Find(normalized, {i \in DOMAIN normalized : normalized[i][1] = klass})
         IN  IF tuple = <<>> \/ ~cachedPlugins[t].valid THEN Options({})
             ELSE Options(OrEmpty(CallProvider(tuple[1][2])))

\* mutant: a provider that returns nothing is an error
optionsForTableStrict(t, klass) ==
    IF ~args[t].set THEN [status |-> "error", error |-> "TypeError", value |-> <<>>]
    ELSE LET normalized == normalizePluginsConfig(args[t].named.plugins)
             tuple == Find(normalized, {i \in DOMAIN normalized : normalized[i][1] = klass})
         IN  IF tuple = <<>> THEN Options({})
             ELSE IF CallProvider(tuple[1][2]) = <<>>
             THEN [status |-> "error", error |-> "TypeError", value |-> <<>>]
             ELSE Options(CallProvider(tuple[1][2])[1])

\* options.forTable(table, klass); `table.config` is `this.args.named`, a TypeError
\* while `args` is not set
optionsForTable(t, klass) ==
    IF ~args[t].set THEN [status |-> "error", error |-> "TypeError", value |-> <<>>]
    ELSE LET normalized == normalizePluginsConfig(args[t].named.plugins)
             tuple == Find(normalized, {i \in DOMAIN normalized : normalized[i][1] = klass})
         IN  IF tuple = <<>> THEN Options({})
             ELSE Options(OrEmpty(CallProvider(tuple[1][2])))

\* options.forColumn(column, klass)
optionsForColumn(column, klass) ==
    LET pluginOptions == ColumnConfig(column).pluginOptions
        tuple == IF pluginOptions = <<>> THEN <<>>
                 ELSE Find(pluginOptions[1],
                           {i \in DOMAIN pluginOptions[1] : pluginOptions[1][i][1] = klass})
        fn == IF tuple = <<>> THEN "none" ELSE tuple[1][2]
    IN  IF fn = "none" THEN Options({})
        ELSE Options(OrEmpty(CallProvider(fn)))

(***************************************************************************)
(* Metadata Cache: getPluginInstance and the three accessors.              *)
(***************************************************************************)

Thrown(message) == [status |-> "error", error |-> message, value |-> NoMeta]

\* the instance stored in `map` under (rootKey, mapKey), as a sequence of length <= 1
Stored(map, rootKey, mapKey) ==
    IF Has(map, rootKey) /\ Has(map[rootKey], mapKey) THEN <<map[rootKey][mapKey]>> ELSE <<>>

\* `new plugin.meta.<scope>(entity)`: a new meta instance, manufactured by `plugin`
\* for `entity`; a new object, told from every other meta by the place it is made for
\* and by how many were made for that place before it
NewMeta(scope, plugin, entity, key, before) ==
    [status |-> "ok", error |-> "",
     value |-> [scope |-> scope, entity |-> entity, key |-> key,
                n |-> IF before = <<>> THEN 1 ELSE before[1].n + 1, plugin |-> plugin]]

\* `new plugin.meta.<scope>(entity)` with what the constructor does. A constructor
\* that calls the accessor for (entity, key) finds nothing stored, the entry being
\* set only after the factory has returned: the accessor runs the factory again.
\* Called once, that inner call makes and stores an instance of its own, and the
\* instance under construction is the next one made for the place; called every
\* time, the calls nest until the stack is exhausted
Construct(scope, plugin, entity, key, before) ==
    CASE Reenters(plugin.klass) = "once" ->
             NewMeta(scope, plugin, entity, key,
                     <<NewMeta(scope, plugin, entity, key, before).value>>)
      [] Reenters(plugin.klass) = "always" ->
             Thrown("RangeError: Maximum call stack size exceeded")
      [] OTHER -> NewMeta(scope, plugin, entity, key, before)

\* the factory of meta.forColumn / meta.forRow, given what `table.plugins` returned
EntityFactory(scope, entity, klass, read) ==
    IF read.status # "ok" THEN Thrown(read.error)
    ELSE LET found == pluginOf(read.value, klass)
         IN  IF found = <<>>
             THEN Thrown("[" \o klass \o "] cannot get plugin instance of unregistered plugin class")
             ELSE IF ~HasMeta(found[1].klass)
             THEN Thrown("<#" \o Name(found[1].klass) \o "> plugin does not have meta specified")
             ELSE IF scope \notin MetaFactories(found[1].klass)
             THEN Thrown("<#" \o Name(found[1].klass) \o "> plugin does not specify " \o scope \o " meta")
             ELSE Construct(scope, found[1], entity, klass,
                            Stored(IF scope = "column" THEN COLUMN_META ELSE ROW_META,
                                   entity, klass))

\* the factory of meta.forTable, given what `table.plugins` returned
TableFactory(t, klass, read) ==
    IF read.status # "ok" THEN Thrown(read.error)
    ELSE LET found == pluginOf(read.value, klass)
             keys == IF Has(TABLE_META, TABLE_KEY[t])
                     THEN DOMAIN TABLE_META[TABLE_KEY[t]] ELSE {}
         IN  IF found = <<>>
             THEN Thrown("[" \o klass \o "] cannot get plugin instance of unregistered plugin class")
             ELSE IF ~HasMeta(found[1].klass)
             THEN Thrown("<#" \o Name(found[1].klass) \o "> plugin does not have meta specified")
             ELSE IF "table" \notin MetaFactories(found[1].klass)
             THEN Thrown("<#" \o Name(found[1].klass) \o "> plugin does not specify table meta")
             ELSE IF klass \in keys
             THEN Thrown("<#" \o Name(found[1].klass) \o "> plugin already exists for the table. "
                         \o "A plugin may only be instantiated once per table.")
             ELSE Construct("table", found[1], TableRef(t), klass,
                            Stored(TABLE_META, TABLE_KEY[t], klass))

\* getPluginInstance without the lookup: the factory is called and its result stored
\* on every call
getPluginInstanceNoLookup(map, rootKey, mapKey, made) ==
    LET bucket == IF Has(map, rootKey) THEN map[rootKey] ELSE EmptyMap
    IN  IF made.status = "ok"
        THEN [status |-> "ok", error |-> "", value |-> made.value, called |-> TRUE,
              map |-> MapSet(map, rootKey, MapSet(bucket, mapKey, made.value))]
        ELSE [status |-> "error", error |-> made.error, value |-> NoMeta, called |-> TRUE,
              map |-> map]

\* getPluginInstance with one bucket for all root keys: an instance stored under
\* mapKey for any root key is returned for every root key
getPluginInstanceShared(map, rootKey, mapKey, made) ==
    LET holders == {k \in DOMAIN map : Has(map[k], mapKey)}
    IN  IF holders # {}
        THEN [status |-> "ok", error |-> "",
              value |-> map[CHOOSE k \in holders : TRUE][mapKey], called |-> FALSE,
              map |-> map]
        ELSE IF made.status = "ok"
        THEN [status |-> "ok", error |-> "", value |-> made.value, called |-> TRUE,
              map |-> MapSet(map, rootKey, MapSet(EmptyMap, mapKey, made.value))]
        ELSE [status |-> "error", error |-> made.error, value |-> NoMeta, called |-> TRUE,
              map |-> map]

\* getPluginInstance that sets the entry before the factory has returned: a
\* failing factory leaves an entry without instance behind
getPluginInstanceEager(map, rootKey, mapKey, made) ==
    LET bucket == IF Has(map, rootKey) THEN map[rootKey] ELSE EmptyMap
    IN  IF Has(bucket, mapKey)
        THEN [status |-> "ok", error |-> "", value |-> bucket[mapKey], called |-> FALSE,
              map |-> map]
        ELSE IF made.status = "ok"
        THEN [status |-> "ok", error |-> "", value |-> made.value, called |-> TRUE,
              map |-> MapSet(map, rootKey, MapSet(bucket, mapKey, made.value))]
        ELSE [status |-> "error", error |-> made.error, value |-> NoMeta, called |-> TRUE,
              map |-> MapSet(map, rootKey, MapSet(bucket, mapKey, NoMeta))]

\* getPluginInstance(map, rootKey, mapKey, factory): the instance under mapKey in the
\* bucket of rootKey is returned when present; otherwise the factory is called and
\* what it returns is stored.  `made` is what the factory returns or throws if it is
\* called; `called`: it was.  A root key without a bucket and one with an empty
\* bucket are one state here: the code creates the bucket before it looks into it,
\* and nothing reads the difference.
getPluginInstance(map, rootKey, mapKey, made) ==
    LET bucket == IF Has(map, rootKey) THEN map[rootKey] ELSE EmptyMap
    IN  IF Has(bucket, mapKey)
        THEN [status |-> "ok", error |-> "", value |-> bucket[mapKey], called |-> FALSE,
              map |-> map]
        ELSE IF made.status = "ok"
        THEN [status |-> "ok", error |-> "", value |-> made.value, called |-> TRUE,
              map |-> MapSet(map, rootKey, MapSet(bucket, mapKey, made.value))]
        ELSE [status |-> "error", error |-> made.error, value |-> NoMeta, called |-> TRUE,
              map |-> map]

\* meta.forTable(table, klass), `read` being what table.plugins returns if it is read
metaForTable(t, klass, read) ==
    getPluginInstance(TABLE_META, TABLE_KEY[t], klass, TableFactory(t, klass, read))

\* meta.forColumn with the store keyed by the column's table and key, not by the
\* Column object
metaForColumnByKey(column, klass, read) ==
    getPluginInstance(COLUMN_META, [column EXCEPT !.id = 0], klass,
                      EntityFactory("column", column, klass, read))

\* meta.forColumn(column, klass)
metaForColumn(column, klass, read) ==
    getPluginInstance(COLUMN_META, column, klass, EntityFactory("column", column, klass, read))

\* meta.forRow(row, klass)
metaForRow(row, klass, read) ==
    getPluginInstance(ROW_META, row, klass, EntityFactory("row", row, klass, read))

(***************************************************************************)
(* Feature Resolver.                                                       *)
(***************************************************************************)

\* plugin.features || plugin.constructor.features (<<>>: undefined)
featuresOf(plugin) ==
    IF HasInstanceFeatures(plugin.klass) THEN InstanceFeatures(plugin.klass)
    ELSE StaticFeatures(plugin.klass)

\* findPlugin(plugins, featureName): <<provider>> or <<>> (undefined)
findPlugin(plugins, featureName) ==
    Find(plugins, {i \in DOMAIN plugins : featureName \in SeqToSet(featuresOf(plugins[i]))})

\* availableFeatures reading the classes' static `features` only
availableFeaturesStatic(plugins) ==
    LET allFeatures == Flat([i \in DOMAIN plugins |-> StaticFeatures(plugins[i].klass)])
    IN  IF Len(allFeatures) > 0 THEN Join(allFeatures) ELSE "[none]"

\* availableFeatures(plugins)
availableFeatures(plugins) ==
    LET allFeatures == Flat([i \in DOMAIN plugins |-> featuresOf(plugins[i])])
    IN  IF Len(allFeatures) > 0 THEN Join(allFeatures) ELSE "[none]"

NotFound(plugins, featureName) ==
    "Could not find plugin with feature: " \o featureName \o ". "
        \o "Available features: " \o availableFeatures(plugins)

\* the memo read again within the same call: nothing more is constructed
Reread(read) == [read EXCEPT !.built = 0]

\* meta.withFeature.forTable(table, featureName)
withFeatureForTable(t, featureName, read) ==
    IF read.status # "ok"
    THEN [status |-> "error", error |-> read.error, value |-> NoMeta, called |-> FALSE,
          map |-> TABLE_META]
    ELSE LET provider == findPlugin(read.value, featureName)
         IN  IF provider = <<>>
             THEN [status |-> "error", error |-> NotFound(read.value, featureName),
                   value |-> NoMeta, called |-> FALSE, map |-> TABLE_META]
             ELSE metaForTable(t, provider[1].klass, Reread(read))

\* meta.withFeature.forColumn(column, featureName)
withFeatureForColumn(column, featureName, read) ==
    IF read.status # "ok"
    THEN [status |-> "error", error |-> read.error, value |-> NoMeta, called |-> FALSE,
          map |-> COLUMN_META]
    ELSE LET provider == findPlugin(read.value, featureName)
         IN  IF provider = <<>>
             THEN [status |-> "error", error |-> NotFound(read.value, featureName),
                   value |-> NoMeta, called |-> FALSE, map |-> COLUMN_META]
             ELSE metaForColumn(column, provider[1].klass, Reread(read))


(***************************************************************************)
(* Sticky columns: ColumnMeta of the StickyColumns plugin, over the meta   *)
(* of the table's 'columnVisibility' and 'columnWidth' providers.          *)
(***************************************************************************)

\* object[name]: <<value>>, or <<>> when the object has no such property
Property(object, name) ==
    IF \E pair \in object : pair[1] = name
    THEN <<(CHOOSE pair \in object : pair[1] = name)[2]>>
    ELSE <<>>

\* ColumnMeta.position: the `sticky` option of the column, asserted to be 'left',
\* 'right', false or undefined; `sticky || 'none'`
position(column) ==
    LET sticky == Property(optionsForColumn(column, "StickyColumns").value[1], "sticky")
    IN  IF sticky \notin {<<"left">>, <<"right">>, <<"false">>, <<>>}
        THEN [status |-> "error",
              error |-> "Invalid sticky value, " \o sticky[1]
                        \o ". Valid values: 'left', 'right', false",
              value |-> "none"]
        ELSE [status |-> "ok", error |-> "",
              value |-> IF sticky \in {<<"false">>, <<>>} THEN "none" ELSE sticky[1]]

\* the place of `column` in its table's column list (0: not listed)
IndexOf(column) ==
    LET list == columns[column.table]
    IN  IF \E i \in DOMAIN list : list[i] = column
        THEN CHOOSE i \in DOMAIN list : list[i] = column
        ELSE 0

\* columnsBefore / columnsAfter of the table meta of the 'columnVisibility'
\* provider: the columns shown that are listed before / after `column`
Shown(list) == SelectSeq(list, LAMBDA c : c.key \notin hidden)

columnsBefore(column) ==
    IF IndexOf(column) = 0 THEN <<>>
    ELSE Shown(SubSeq(columns[column.table], 1, IndexOf(column) - 1))

columnsAfter(column) ==
    IF IndexOf(column) = 0 THEN <<>>
    ELSE Shown(SubSeq(columns[column.table], IndexOf(column) + 1,
                      Len(columns[column.table])))

\* hasWidth(columnMeta): the meta is an object with a `width` property
hasWidth(columnMeta) ==
    /\ columnMeta # NoMeta
    /\ Has(widths, columnMeta.entity.key)
    /\ widths[columnMeta.entity.key].has

\* `acc + (columnMeta.width ?? 0)` for a meta with a width property, else `acc`
AddWidth(acc, columnMeta) ==
    IF hasWidth(columnMeta)
    THEN acc + (IF widths[columnMeta.entity.key].width = <<>> THEN 0
                ELSE widths[columnMeta.entity.key].width[1])
    ELSE acc

\* columns.reduce((acc, column) => ..., 0) over the metas of columns i.. of the list
RECURSIVE Reduce(_, _, _)
Reduce(metas, i, acc) ==
    IF i > Len(metas) THEN acc ELSE Reduce(metas, i + 1, AddWidth(acc, metas[i].value))

\* `${n}px`
Px(n) == ToString(n) \o "px"

\* the column store after the accessor calls `outs` have run in order on it, each
\* for a column of its own: what each call stored is stored
RECURSIVE StoredBy(_, _, _)
StoredBy(map, outs, i) ==
    IF i > Len(outs) THEN map
    ELSE StoredBy(IF outs[i].status = "ok" /\ outs[i].called
                  THEN MapSet(map, outs[i].value.entity, outs[i].map[outs[i].value.entity])
                  ELSE map,
                  outs, i + 1)

\* the outcome of reading ColumnMeta.offset: `value` is <<>> for undefined, the
\* two stores are as the read leaves them, `ran` says whether the body returned
OffsetOutcome(status, error, value, tableMeta, outs, ran) ==
    [status |-> status, error |-> error, value |-> value, TABLE_META |-> tableMeta,
     outs |-> outs, ran |-> ran]

\* mutant: the body of `offset` with the two sides exchanged
offsetBodyMirrored(column, read) ==
    LET at == position(column)
        visiblility == withFeatureForTable(column.table, "columnVisibility", read)
        listed == IF at.value = "left" THEN columnsAfter(column) ELSE columnsBefore(column)
        metas == [i \in DOMAIN listed |-> withFeatureForColumn(listed[i], "columnWidth", read)]
        failed == {i \in DOMAIN metas : metas[i].status # "ok"}
        first == CHOOSE i \in failed : \A j \in failed : i <= j
    IN  IF at.status # "ok"
        THEN OffsetOutcome("error", at.error, <<>>, TABLE_META, <<>>, FALSE)
        ELSE IF at.value = "none"
        THEN OffsetOutcome("ok", "", <<>>, TABLE_META, <<>>, TRUE)
        ELSE IF visiblility.status # "ok"
        THEN OffsetOutcome("error", visiblility.error, <<>>, visiblility.map, <<>>, FALSE)
        ELSE IF failed # {}
        THEN OffsetOutcome("error", metas[first].error, <<>>, visiblility.map,
                           SubSeq(metas, 1, first - 1), FALSE)
        ELSE OffsetOutcome("ok", "", <<Px(Reduce(metas, 1, 0))>>, visiblility.map, metas, TRUE)

\* the body of the getter `offset` of the ColumnMeta of `column`; `read` is what
\* table.plugins returns
offsetBody(column, read) ==
    LET at == position(column)
        visiblility == withFeatureForTable(column.table, "columnVisibility", read)
        listed == IF at.value = "left" THEN columnsBefore(column) ELSE columnsAfter(column)
        metas == [i \in DOMAIN listed |-> withFeatureForColumn(listed[i], "columnWidth", read)]
        failed == {i \in DOMAIN metas : metas[i].status # "ok"}
        first == CHOOSE i \in failed : \A j \in failed : i <= j
    IN  IF at.status # "ok"
        THEN OffsetOutcome("error", at.error, <<>>, TABLE_META, <<>>, FALSE)
        ELSE IF at.value = "none"
        THEN OffsetOutcome("ok", "", <<>>, TABLE_META, <<>>, TRUE)
        ELSE IF visiblility.status # "ok"
        THEN OffsetOutcome("error", visiblility.error, <<>>, visiblility.map, <<>>, FALSE)
        ELSE IF failed # {}
        THEN OffsetOutcome("error", metas[first].error, <<>>, visiblility.map,
                           SubSeq(metas, 1, first - 1), FALSE)
        ELSE OffsetOutcome("ok", "", <<Px(Reduce(metas, 1, 0))>>, visiblility.map, metas, TRUE)

\* the @cached getter `offset` of `columnMeta`, the ColumnMeta of `column`: the
\* memoized value while the memo holds, else the body
offset(columnMeta, column, read) ==
    IF Has(offsets, columnMeta)
    THEN OffsetOutcome("ok", "", offsets[columnMeta], TABLE_META, <<>>, FALSE)
    ELSE offsetBody(column, read)

(***************************************************************************)
(* Preferences Facade: preferences.forTable / preferences.forColumn over   *)
(* table.preferences (its storage and persist()).                          *)
(***************************************************************************)

\* klass.name: the name of the class itself (not the `name` field of its
\* instances); VendorWidths is another class that was declared `class Widths`
KlassName(klass) == IF klass = "VendorWidths" THEN "Widths" ELSE klass

\* the classes, keys and values the facade is used with
PrefClasses == {"Widths", "VendorWidths", "StickyColumns"}

PrefKeys == {"k1", "k2"}

PrefValues == {"v1", "v2"}

\* storage.forPlugin(name).table and storage.forPlugin(name).forColumn(key): the
\* two kinds of scope of a plugin's preferences
TableScope == "table"

ColumnScope(key) == "columns." \o key

\* Map.get / Map.set / Map.delete on the map at [name][scope] of a storage;
\* <<>> stands for undefined
ScopeGet(store, name, scope, key) ==
    IF <<name, scope, key>> \in DOMAIN store THEN <<store[<<name, scope, key>>]>> ELSE <<>>

ScopeSet(store, name, scope, key, value) == MapSet(store, <<name, scope, key>>, value)

ScopeDelete(store, name, scope, key) == MapDrop(store, {<<name, scope, key>>})

\* what a facade call leaves behind: `out.store` is the storage after the call,
\* `out.persist` says whether prefs.persist() was called, and it is called last
PrefsOutcome(value, store, persist) ==
    [status |-> "ok", error |-> "", value |-> value, store |-> store, persist |-> persist]

\* `table.preferences` is undefined until modify() has run
NoPreferences(t) ==
    [status |-> "error", error |-> "TypeError", value |-> <<>>, store |-> storage[t],
     persist |-> FALSE]

\* preferences.forTable(table, klass).get(key) / .set(key, value) / .delete(key)
prefsForTableGet(t, klass, key) ==
    IF ~preferences[t].exists THEN NoPreferences(t)
    ELSE PrefsOutcome(ScopeGet(storage[t], KlassName(klass), TableScope, key),
                      storage[t], FALSE)

prefsForTableSet(t, klass, key, value) ==
    IF ~preferences[t].exists THEN NoPreferences(t)
    ELSE PrefsOutcome(<<>>, ScopeSet(storage[t], KlassName(klass), TableScope, key, value),
                      TRUE)

\* mutant: delete(key) that leaves the entry in the map
prefsForTableDeleteKept(t, klass, key) ==
    IF ~preferences[t].exists THEN NoPreferences(t)
    ELSE PrefsOutcome(<<>>, storage[t], TRUE)

prefsForTableDelete(t, klass, key) ==
    IF ~preferences[t].exists THEN NoPreferences(t)
    ELSE PrefsOutcome(<<>>, ScopeDelete(storage[t], KlassName(klass), TableScope, key), TRUE)

\* mutant: get(key) on a scope of the Column object rather than of its key
prefsForColumnGetByColumn(column, klass, key) ==
    IF ~preferences[column.table].exists THEN NoPreferences(column.table)
    ELSE PrefsOutcome(ScopeGet(storage[column.table], KlassName(klass),
                               ColumnScope(column.key \o "#" \o ToString(column.id)), key),
                      storage[column.table], FALSE)

\* preferences.forColumn(column, klass).get(key) / .set(key, value) / .delete(key)
prefsForColumnGet(column, klass, key) ==
    IF ~preferences[column.table].exists THEN NoPreferences(column.table)
    ELSE PrefsOutcome(ScopeGet(storage[column.table], KlassName(klass),
                               ColumnScope(column.key), key),
                      storage[column.table], FALSE)

\* mutant: set(key, value) that does not call persist()
prefsForColumnSetUnsaved(column, klass, key, value) ==
    IF ~preferences[column.table].exists THEN NoPreferences(column.table)
    ELSE PrefsOutcome(<<>>, ScopeSet(storage[column.table], KlassName(klass),
                                     ColumnScope(column.key), key, value),
                      FALSE)

prefsForColumnSet(column, klass, key, value) ==
    IF ~preferences[column.table].exists THEN NoPreferences(column.table)
    ELSE PrefsOutcome(<<>>, ScopeSet(storage[column.table], KlassName(klass),
                                     ColumnScope(column.key), key, value),
                      TRUE)

prefsForColumnDelete(column, klass, key) ==
    IF ~preferences[column.table].exists THEN NoPreferences(column.table)
    ELSE PrefsOutcome(<<>>, ScopeDelete(storage[column.table], KlassName(klass),
                                        ColumnScope(column.key), key),
                      TRUE)

(***************************************************************************)
(* The state after construction, and the operations.                       *)
(***************************************************************************)

Init ==
    /\ TABLE_KEY = [t \in Tables |-> guidFor(t)]
    /\ owner \in {o \in [Tables -> BOOLEAN] : \A t \in Tables \ Driven : o[t]}
    /\ args = [t \in Tables |-> NoArgs]
    /\ preferences = [t \in Tables |-> [exists |-> FALSE, key |-> "", adapter |-> <<>>]]
    /\ scrollContainerElement = [t \in Tables |-> [attached |-> FALSE, scrollTop |-> 0]]
    /\ cachedPlugins = [t \in Tables |-> [valid |-> FALSE, value |-> <<>>]]
    /\ columns = [t \in Tables |-> <<>>]
    /\ rows = [t \in Tables |-> <<>>]
    /\ heap = {}
    /\ TABLE_META = EmptyMap
    /\ COLUMN_META = EmptyMap
    /\ ROW_META = EmptyMap
    /\ evaluations = [t \in Tables |-> 0]
    /\ storage = [t \in Tables |-> EmptyMap]
    /\ persists = [t \in Tables |-> 0]
    /\ persisted = [t \in Tables |-> EmptyMap]
    /\ columnConfig = EmptyMap
    /\ widths = EmptyMap
    /\ hidden = {}
    /\ offsets = EmptyMap

\* resetScrollContainer()
resetScrollContainer(element) ==
    IF ~element.attached THEN element ELSE [element EXCEPT !.scrollTop = 0]

\* modify() that generates the table's identity key anew
ModifyRekeyed(t, plugins) ==
    /\ args' = [args EXCEPT ![t] = [set |-> TRUE, named |-> [plugins |-> plugins]]]
    /\ cachedPlugins' = [cachedPlugins EXCEPT ![t] = [valid |-> FALSE, value |-> <<>>]]
    /\ TABLE_KEY' = [TABLE_KEY EXCEPT ![t] = IF @ = guidFor(t) THEN @ \o "'" ELSE guidFor(t)]
    /\ preferences' = [preferences EXCEPT ![t] =
                           [exists |-> TRUE, key |-> guidFor(t), adapter |-> <<>>]]
    /\ UNCHANGED <<prefs, layout, owner, scrollContainerElement, columns, rows, heap, TABLE_META,
                   COLUMN_META, ROW_META, evaluations>>

\* `named?.preferences ?? {}`, and its `key` and `adapter`; <<>> stands for
\* undefined
NamedPreferences(named) ==
    IF "preferences" \in DOMAIN named /\ named.preferences # <<>>
    THEN named.preferences[1]
    ELSE [key |-> <<>>, adapter |-> <<>>]

\* new TablePreferences(key, adapter) with `key = guidFor(this)` by default
NewTablePreferences(t, named) ==
    [exists |-> TRUE,
     key |-> IF NamedPreferences(named).key = <<>> THEN guidFor(t)
             ELSE NamedPreferences(named).key[1],
     adapter |-> NamedPreferences(named).adapter]

\* modify() that makes the preferences anew on every call
ModifyNamedAnew(t, named) ==
    /\ args' = [args EXCEPT ![t] = [set |-> TRUE, named |-> named]]
    /\ cachedPlugins' = [cachedPlugins EXCEPT ![t] = [valid |-> FALSE, value |-> <<>>]]
    /\ preferences' = [preferences EXCEPT ![t] = NewTablePreferences(t, named)]
    /\ storage' = [storage EXCEPT ![t] = EmptyMap]
    /\ UNCHANGED <<persists, persisted, layout, TABLE_KEY, owner, scrollContainerElement,
                   columns, rows, heap, TABLE_META, COLUMN_META, ROW_META, evaluations>>

\* table.modify(_, named): `args` is assigned, which invalidates the memo of every
\* @cached getter that read it; the preferences are created once, and every
\* later call resets the scroll container instead
ModifyNamed(t, named) ==
    /\ args' = [args EXCEPT ![t] = [set |-> TRUE, named |-> named]]
    /\ cachedPlugins' = [cachedPlugins EXCEPT ![t] = [valid |-> FALSE, value |-> <<>>]]
    /\ IF ~preferences[t].exists
       THEN /\ preferences' = [preferences EXCEPT ![t] = NewTablePreferences(t, named)]
            /\ UNCHANGED scrollContainerElement
       ELSE /\ scrollContainerElement' =
                  [scrollContainerElement EXCEPT ![t] = resetScrollContainer(@)]
            /\ UNCHANGED preferences
    /\ UNCHANGED <<prefs, layout, TABLE_KEY, owner, columns, rows, heap, TABLE_META, COLUMN_META, ROW_META,
                   evaluations>>

\* table.modify(_, {plugins}): a configuration that names no preferences
Modify(t, plugins) == ModifyNamed(t, [plugins |-> plugins])

\* whether this read of table.plugins ran the body of the getter to its end
Evaluated(t, read) == ~cachedPlugins[t].valid /\ read.status = "ok"

\* the metas a store holds, and the metas the three stores hold
StoredMetas(map) == UNION {{map[k][c] : c \in DOMAIN map[k]} : k \in DOMAIN map}

AllMetas == StoredMetas(TABLE_META) \cup StoredMetas(COLUMN_META) \cup StoredMetas(ROW_META)

\* what a read of table.plugins leaves behind in the registry
Registry(t, read) ==
    /\ Evaluated(t, read) => Sum(evaluations, Tables) < MaxEvaluations
    /\ cachedPlugins' = [cachedPlugins EXCEPT ![t] = read.memo]
    /\ evaluations' = IF Evaluated(t, read) THEN [evaluations EXCEPT ![t] = @ + 1]
                      ELSE evaluations

\* a read of table.plugins
Plugins(t) ==
    /\ Registry(t, PluginsGetter(t))
    /\ UNCHANGED <<prefs, layout, TABLE_KEY, owner, args, preferences, scrollContainerElement, columns,
                   rows, heap, TABLE_META, COLUMN_META, ROW_META>>

\* {{modifiers.container}} on an element: table.plugins is read for the plugins'
\* container modifiers (no plugin class here has one), and attachContainer makes
\* the element the table's scroll container
Container(t) ==
    LET read == PluginsGetter(t)
    IN  /\ Registry(t, read)
        /\ scrollContainerElement' =
               IF read.status = "ok"
               THEN [scrollContainerElement EXCEPT ![t].attached = TRUE]
               ELSE scrollContainerElement
        /\ UNCHANGED <<prefs, layout, TABLE_KEY, owner, args, preferences, columns, rows, heap,
                       TABLE_META, COLUMN_META, ROW_META>>

\* the user scrolls the attached container
Scroll(t, top) ==
    /\ scrollContainerElement[t].attached
    /\ scrollContainerElement[t].scrollTop # top
    /\ scrollContainerElement' = [scrollContainerElement EXCEPT ![t].scrollTop = top]
    /\ UNCHANGED <<prefs, layout, TABLE_KEY, owner, args, preferences, cachedPlugins, columns,
                   rows, heap, TABLE_META, COLUMN_META, ROW_META, evaluations>>

\* what a meta accessor leaves behind outside the store it works on: `reads` says
\* whether the call read table.plugins, `out` is its outcome
Effects(t, read, reads, out) ==
    /\ out.called /\ out.status = "ok" => Cardinality(AllMetas) < MaxMetas
    /\ IF reads THEN Registry(t, read) ELSE UNCHANGED <<cachedPlugins, evaluations>>
    /\ UNCHANGED <<prefs, layout, TABLE_KEY, owner, args, preferences, scrollContainerElement, columns,
                   rows, heap>>

\* the Column objects a caller can hold: the listed ones and the replaced ones not
\* yet collected
Columns == {e \in UNION {SeqToSet(columns[t]) : t \in Tables} \cup heap : e.kind = "column"}

Rows == {e \in UNION {SeqToSet(rows[t]) : t \in Tables} \cup heap : e.kind = "row"}

MetaForTable(t, klass) ==
    LET read == PluginsGetter(t)
        out == metaForTable(t, klass, read)
    IN  /\ Effects(t, read, out.called, out)
        /\ TABLE_META' = out.map
        /\ UNCHANGED <<COLUMN_META, ROW_META>>

MetaForColumn(column, klass) ==
    LET read == PluginsGetter(column.table)
        out == metaForColumn(column, klass, read)
    IN  /\ Effects(column.table, read, out.called, out)
        /\ COLUMN_META' = out.map
        /\ UNCHANGED <<TABLE_META, ROW_META>>

MetaForRow(row, klass) ==
    LET read == PluginsGetter(row.table)
        out == metaForRow(row, klass, read)
    IN  /\ Effects(row.table, read, out.called, out)
        /\ ROW_META' = out.map
        /\ UNCHANGED <<TABLE_META, COLUMN_META>>

WithFeatureForTable(t, featureName) ==
    LET read == PluginsGetter(t)
        out == withFeatureForTable(t, featureName, read)
    IN  /\ Effects(t, read, TRUE, out)
        /\ TABLE_META' = out.map
        /\ UNCHANGED <<COLUMN_META, ROW_META>>

WithFeatureForColumn(column, featureName) ==
    LET read == PluginsGetter(column.table)
        out == withFeatureForColumn(column, featureName, read)
    IN  /\ Effects(column.table, read, TRUE, out)
        /\ COLUMN_META' = out.map
        /\ UNCHANGED <<TABLE_META, ROW_META>>

\* `new Column(table, config)` / `new Row(table, datum)` for position i of `list`: a
\* new object, told from the ones that held the position before it by `id`
NewEntity(kind, t, key, list, i) ==
    [kind |-> kind, table |-> t, key |-> key,
     id |-> IF i > Len(list) THEN 1 ELSE list[i].id + 1]

\* the list with position i holding `entity` (appended when i is one past the end)
Place(list, i, entity) ==
    IF i > Len(list) THEN Append(list, entity) ELSE [list EXCEPT ![i] = entity]

\* the Column and Row objects constructed so far
Constructed ==
    Sum([t \in Tables |-> Sum([i \in DOMAIN columns[t] |-> columns[t][i].id], DOMAIN columns[t])
                          + Sum([i \in DOMAIN rows[t] |-> rows[t][i].id], DOMAIN rows[t])],
        Tables)

\* table.columns is mapped again after the source of column i yielded a new
\* configuration object: a new Column takes the place of the old one
RegenerateColumn(t, i) ==
    /\ args[t].set
    /\ Constructed < MaxEntities
    /\ i <= Len(ColumnKeys)
    /\ columns' = [columns EXCEPT
                     ![t] = Place(@, i, NewEntity("column", t, ColumnKeys[i], @, i))]
    /\ heap' = IF i > Len(columns[t]) THEN heap ELSE heap \cup {columns[t][i]}
    /\ UNCHANGED <<prefs, layout, TABLE_KEY, owner, args, preferences, scrollContainerElement, cachedPlugins,
                   rows, TABLE_META, COLUMN_META, ROW_META, evaluations>>

\* how many Columns take the place of a Column of the same key
MaxRegenerated == 2

\* table.columns is mapped again after the source of column i yielded a new
\* configuration object with the key of the old one: a new Column of that key
\* takes the place of the old one
RegenerateKeyed(t, i) ==
    /\ args[t].set
    /\ i \in DOMAIN columns[t]
    /\ Constructed < Len(columns[t]) + MaxRegenerated
    /\ columns' = [columns EXCEPT
                     ![t] = Place(@, i, NewEntity("column", t, @[i].key, @, i))]
    /\ heap' = heap \cup {columns[t][i]}
    /\ UNCHANGED <<prefs, layout, TABLE_KEY, owner, args, preferences, scrollContainerElement, cachedPlugins,
                   rows, TABLE_META, COLUMN_META, ROW_META, evaluations>>

\* table.rows is mapped again after the data source yielded a new datum
RegenerateRow(t, i) ==
    /\ args[t].set
    /\ Constructed < MaxEntities
    /\ i <= Len(RowKeys)
    /\ rows' = [rows EXCEPT ![t] = Place(@, i, NewEntity("row", t, RowKeys[i], @, i))]
    /\ heap' = IF i > Len(rows[t]) THEN heap ELSE heap \cup {rows[t][i]}
    /\ UNCHANGED <<prefs, layout, TABLE_KEY, owner, args, preferences, scrollContainerElement, cachedPlugins,
                   columns, TABLE_META, COLUMN_META, ROW_META, evaluations>>

\* a replaced Column or Row loses its last reference: its WeakMap entry goes with it
Collect(entity) ==
    /\ heap' = heap \ {entity}
    /\ COLUMN_META' = MapDrop(COLUMN_META, {entity})
    /\ ROW_META' = MapDrop(ROW_META, {entity})
    /\ UNCHANGED <<prefs, layout, TABLE_KEY, owner, args, preferences, scrollContainerElement, cachedPlugins,
                   columns, rows, TABLE_META, evaluations>>

\* a call on a preferences facade of table t with outcome `out`: the storage is
\* as the call left it, and persist(), when called, hands the storage as it then
\* is to the adapter
Preferences(t, out) ==
    /\ out.persist => persists[t] < MaxPersists
    /\ storage' = [storage EXCEPT ![t] = out.store]
    /\ persists' = [persists EXCEPT ![t] = IF out.persist THEN @ + 1 ELSE @]
    /\ persisted' = [persisted EXCEPT ![t] = IF out.persist THEN out.store ELSE @]
    /\ UNCHANGED <<layout, TABLE_KEY, owner, args, preferences, scrollContainerElement,
                   cachedPlugins, columns, rows, heap, TABLE_META, COLUMN_META, ROW_META,
                   evaluations>>

PrefsForTableGet(t, klass, key) == Preferences(t, prefsForTableGet(t, klass, key))

PrefsForTableSet(t, klass, key, value) ==
    Preferences(t, prefsForTableSet(t, klass, key, value))

PrefsForTableDelete(t, klass, key) == Preferences(t, prefsForTableDelete(t, klass, key))

PrefsForColumnGet(column, klass, key) ==
    Preferences(column.table, prefsForColumnGet(column, klass, key))

PrefsForColumnSet(column, klass, key, value) ==
    Preferences(column.table, prefsForColumnSet(column, klass, key, value))

PrefsForColumnDelete(column, klass, key) ==
    Preferences(column.table, prefsForColumnDelete(column, klass, key))

\* headerCellModifier(element, { column }): the ColumnMeta of the column is looked
\* up or made; for a sticky column its style, and with it its offset, is read
HeaderCellModifier(column) ==
    LET read == PluginsGetter(column.table)
        own == metaForColumn(column, "StickyColumns", read)
        at == position(column)
        out == offset(own.value, column, Reread(read))
        sticky == own.status = "ok" /\ at.status = "ok" /\ at.value # "none"
    IN  /\ Registry(column.table, read)
        /\ COLUMN_META' = IF sticky THEN StoredBy(own.map, out.outs, 1) ELSE own.map
        /\ TABLE_META' = IF sticky THEN out.TABLE_META ELSE TABLE_META
        /\ offsets' = IF sticky /\ out.ran THEN MapSet(offsets, own.value, out.value)
                      ELSE offsets
        /\ UNCHANGED <<prefs, TABLE_KEY, owner, args, preferences, scrollContainerElement,
                       columns, rows, heap, ROW_META, columnConfig, widths, hidden>>

\* the 'columnVisibility' provider hides or shows a column: tracked state that the
\* memoized offsets were computed from
Hide(column) ==
    /\ column.key \notin hidden
    /\ hidden' = hidden \cup {column.key}
    /\ offsets' = EmptyMap
    /\ UNCHANGED <<prefs, TABLE_KEY, owner, args, preferences, scrollContainerElement,
                   cachedPlugins, columns, rows, heap, TABLE_META, COLUMN_META, ROW_META,
                   evaluations, columnConfig, widths>>

Show(column) ==
    /\ column.key \in hidden
    /\ hidden' = hidden \ {column.key}
    /\ offsets' = EmptyMap
    /\ UNCHANGED <<prefs, TABLE_KEY, owner, args, preferences, scrollContainerElement,
                   cachedPlugins, columns, rows, heap, TABLE_META, COLUMN_META, ROW_META,
                   evaluations, columnConfig, widths>>

\* a call of options.forTable / options.forColumn: it changes nothing
OptionsForTable(t, klass) ==
    /\ optionsForTable(t, klass).status \in {"ok", "error"}
    /\ UNCHANGED vars

OptionsForColumn(column, klass) ==
    /\ optionsForColumn(column, klass).status \in {"ok", "error"}
    /\ UNCHANGED vars

\* the operations on the tables of `driven`, configured from `configs`
Step(driven, configs) ==
    \/ \E t \in driven, plugins \in configs : Modify(t, plugins)
    \/ \E t \in driven : Plugins(t)
    \/ \E t \in driven, klass \in Classes : MetaForTable(t, klass)
    \/ \E column \in Columns, klass \in Classes : MetaForColumn(column, klass)
    \/ \E row \in Rows, klass \in Classes : MetaForRow(row, klass)
    \/ \E t \in driven, featureName \in Features : WithFeatureForTable(t, featureName)
    \/ \E column \in Columns, featureName \in Features : WithFeatureForColumn(column, featureName)
    \/ \E t \in driven : \E i \in 1..Len(columns[t]) + 1 : RegenerateColumn(t, i)
    \/ \E t \in driven : \E i \in 1..Len(rows[t]) + 1 : RegenerateRow(t, i)
    \/ \E entity \in heap : Collect(entity)

Next == Step(Driven, PluginConfigs)

Spec == Init /\ [][Next]_vars

\* two tables side by side under one configuration
NextTables == Step(Tables, TableConfigs)

SpecTables == Init /\ [][NextTables]_vars

\* one table configured with tuples, a class without meta and a plugin object
NextEntries ==
    \/ Step(Driven, EntryConfigs)
    \/ \E t \in Driven, klass \in Classes : OptionsForTable(t, klass)
    \/ \E column \in Columns, klass \in Classes : OptionsForColumn(column, klass)

SpecEntries == Init /\ [][NextEntries]_vars

\* the configurations a table is given over time: with and without preferences,
\* naming a key, an adapter, or both
NamedConfigs ==
    {[plugins |-> <<"Widths">>]} \cup
    {[plugins |-> <<"Widths">>, preferences |-> <<[key |-> key, adapter |-> adapter]>>] :
        <<key, adapter>> \in {<<<<"p1">>, <<>>>>, <<<<>>, <<"a1">>>>, <<<<"p2">>, <<"a2">>>>}}

\* how far the scroll container is scrolled
MaxScrollTop == 2

\* one table that is configured again and again, attached to a scroll container
\* and scrolled, while its preferences are written
NextModify ==
    \/ \E t \in Driven, named \in NamedConfigs : ModifyNamed(t, named)
    \/ \E t \in Driven : Container(t)
    \/ \E t \in Driven, top \in 0..MaxScrollTop : Scroll(t, top)
    \/ \E t \in Driven, key \in PrefKeys, value \in PrefValues :
          PrefsForTableSet(t, "Widths", key, value)

SpecModify == Init /\ [][NextModify]_vars

\* one table, configured and with a column, whose preferences are read and written
NextPreferences ==
    \/ \E t \in Driven : Modify(t, <<"Widths">>)
    \/ \E t \in Driven : \E i \in 1..Len(columns[t]) + 1 : RegenerateColumn(t, i)
    \/ \E t \in Driven, klass \in PrefClasses, key \in PrefKeys :
          PrefsForTableGet(t, klass, key)
    \/ \E t \in Driven, klass \in PrefClasses, key \in PrefKeys, value \in PrefValues :
          PrefsForTableSet(t, klass, key, value)
    \/ \E t \in Driven, klass \in PrefClasses, key \in PrefKeys :
          PrefsForTableDelete(t, klass, key)
    \/ \E column \in Columns, klass \in PrefClasses, key \in PrefKeys :
          PrefsForColumnGet(column, klass, key)
    \/ \E column \in Columns, klass \in PrefClasses, key \in PrefKeys, value \in PrefValues :
          PrefsForColumnSet(column, klass, key, value)
    \/ \E column \in Columns, klass \in PrefClasses, key \in PrefKeys :
          PrefsForColumnDelete(column, klass, key)

SpecPreferences == Init /\ [][NextPreferences]_vars

\* one table configured with plugins whose meta constructors call the accessor
NextNested ==
    \/ \E t \in Driven, plugins \in NestedConfigs : Modify(t, plugins)
    \/ \E t \in Driven : \E i \in 1..Len(columns[t]) + 1 : RegenerateColumn(t, i)
    \/ \E t \in Driven, klass \in NestedClasses \cup {"Widths"} : MetaForTable(t, klass)
    \/ \E column \in Columns, klass \in NestedClasses \cup {"Widths"} :
          MetaForColumn(column, klass)
    \/ \E entity \in heap : Collect(entity)

SpecNested == Init /\ [][NextNested]_vars

\* a table of three columns configured with a 'columnWidth' provider, a
\* 'columnVisibility' provider and StickyColumns; the sticky options and the
\* widths of the columns are drawn from StickyOptions and ColumnWidths
InitSticky ==
    /\ TABLE_KEY = [t \in Tables |-> guidFor(t)]
    /\ owner = [t \in Tables |-> TRUE]
    /\ args = [t \in Tables |->
                  IF t \in Driven
                  THEN [set |-> TRUE,
                        named |-> [plugins |-> <<"Widths", "Visibility", "StickyColumns">>]]
                  ELSE NoArgs]
    /\ preferences = [t \in Tables |->
                         IF t \in Driven THEN [exists |-> TRUE, key |-> guidFor(t), adapter |-> <<>>]
                         ELSE [exists |-> FALSE, key |-> "", adapter |-> <<>>]]
    /\ scrollContainerElement = [t \in Tables |-> [attached |-> FALSE, scrollTop |-> 0]]
    /\ cachedPlugins = [t \in Tables |-> [valid |-> FALSE, value |-> <<>>]]
    /\ columns = [t \in Tables |->
                     IF t \in Driven
                     THEN [i \in DOMAIN StickyKeys |->
                              [kind |-> "column", table |-> t, key |-> StickyKeys[i], id |-> 1]]
                     ELSE <<>>]
    /\ rows = [t \in Tables |-> <<>>]
    /\ heap = {}
    /\ TABLE_META = EmptyMap
    /\ COLUMN_META = EmptyMap
    /\ ROW_META = EmptyMap
    /\ evaluations = [t \in Tables |-> 0]
    /\ storage = [t \in Tables |-> EmptyMap]
    /\ persists = [t \in Tables |-> 0]
    /\ persisted = [t \in Tables |-> EmptyMap]
    /\ \E choice \in StickyOptions :
          columnConfig = [key \in SeqToSet(StickyKeys) |->
                             PluginOptions(choice[IndexIn(StickyKeys, key)])]
    /\ \E choice \in ColumnWidths :
          widths = [key \in SeqToSet(StickyKeys) |-> choice[IndexIn(StickyKeys, key)]]
    /\ hidden = {}
    /\ offsets = EmptyMap

NextSticky ==
    \/ \E column \in Columns : HeaderCellModifier(column)
    \/ \E column \in Columns : Hide(column)
    \/ \E column \in Columns : Show(column)

SpecSticky == InitSticky /\ [][NextSticky]_vars

\* a table of three columns whose columns are regenerated under their keys while
\* the preferences of its columns and of the table are written
NextKeyed ==
    \/ \E t \in Driven : \E i \in DOMAIN columns[t] : RegenerateKeyed(t, i)
    \/ \E column \in Columns, klass \in {"Widths", "StickyColumns"}, value \in PrefValues :
          PrefsForColumnSet(column, klass, "k1", value)
    \/ \E column \in Columns, klass \in {"Widths", "StickyColumns"} :
          PrefsForColumnDelete(column, klass, "k1")
    \/ \E t \in Driven, klass \in {"Widths", "StickyColumns"}, value \in PrefValues :
          PrefsForTableSet(t, klass, "k1", value)

SpecKeyed == InitSticky /\ [][NextKeyed]_vars

(***************************************************************************)
(* What a caller gets if it calls an accessor in the current state.        *)
(***************************************************************************)
ForTable(t, klass) == metaForTable(t, klass, PluginsGetter(t))

ForColumn(column, klass) == metaForColumn(column, klass, PluginsGetter(column.table))

ForRow(row, klass) == metaForRow(row, klass, PluginsGetter(row.table))

FeatureForTable(t, featureName) == withFeatureForTable(t, featureName, PluginsGetter(t))

FeatureForColumn(column, featureName) ==
    withFeatureForColumn(column, featureName, PluginsGetter(column.table))

\* table.pluginOf(klass) if called in the current state: <<plugin>>, or <<>> when
\* it returns undefined or table.plugins throws
PluginOfNow(t, klass) ==
    LET read == PluginsGetter(t)
    IN  IF read.status = "ok" THEN pluginOf(read.value, klass) ELSE <<>>

\* the entries of `map` are entries of `next`, holding the same instances, as long
\* as their root key is held
Kept(map, next) ==
    \A k \in DOMAIN map : k \in DOMAIN next =>
        \A c \in DOMAIN map[k] : c \in DOMAIN next[k] /\ next[k][c] = map[k][c]

\* the accessor outcome `out` is the instance stored under (rootKey, mapKey), and
\* the call leaves the store as it is
Hit(map, rootKey, mapKey, out) ==
    Stored(map, rootKey, mapKey) # <<>> =>
        /\ out.status = "ok"
        /\ out.value = Stored(map, rootKey, mapKey)[1]
        /\ out.map = map

\* an entry that appears under (rootKey, mapKey) is the instance `out`, the outcome
\* of the accessor in the state before, returned
Created(map, next, rootKey, mapKey, out) ==
    (Stored(map, rootKey, mapKey) = <<>> /\ Stored(next, rootKey, mapKey) # <<>>) =>
        out.status = "ok" /\ out.called /\ Stored(next, rootKey, mapKey)[1] = out.value

(***************************************************************************)
(* C1.  Get-or-create idempotence.                                         *)
(***************************************************************************)
C1_Returned ==
    /\ \A t \in Tables, P \in Classes : Hit(TABLE_META, TABLE_KEY[t], P, ForTable(t, P))
    /\ \A column \in Columns, P \in Classes : Hit(COLUMN_META, column, P, ForColumn(column, P))
    /\ \A row \in Rows, P \in Classes : Hit(ROW_META, row, P, ForRow(row, P))

C1_Stored ==
    /\ Kept(TABLE_META, TABLE_META') /\ DOMAIN TABLE_META \subseteq DOMAIN TABLE_META'
    /\ Kept(COLUMN_META, COLUMN_META')
    /\ Kept(ROW_META, ROW_META')
    /\ \A t \in Tables, P \in Classes :
          Created(TABLE_META, TABLE_META', TABLE_KEY[t], P, ForTable(t, P))
    /\ \A column \in Columns, P \in Classes :
          Created(COLUMN_META, COLUMN_META', column, P, ForColumn(column, P))
    /\ \A row \in Rows, P \in Classes :
          Created(ROW_META, ROW_META', row, P, ForRow(row, P))

\* C1: an entry (E, P) that appears in a store is the instance the creating call
\* returned; from then on every meta.forTable / forColumn / forRow (E, P) returns
\* that stored instance and leaves the store alone, and no step replaces or
\* removes the entry while E is held.
C1_GetOrCreate == []C1_Returned /\ [][C1_Stored]_vars

\* a table meta and a column meta of a registered class are stored and the
\* plugin list is memoized: the next call is a repeated call
C1_Witness ==
    \E t \in Tables, column \in Columns, P \in Classes :
        /\ cachedPlugins[t].valid /\ pluginOf(cachedPlugins[t].value, P) # <<>>
        /\ column.table = t
        /\ Stored(TABLE_META, TABLE_KEY[t], P) # <<>>
        /\ Stored(COLUMN_META, column, P) # <<>>

(***************************************************************************)
(* C2.  The table meta factory of a plugin runs at most once.              *)
(***************************************************************************)
\* C2: no plugin instance has manufactured two of the stored table metas (every
\* stored table meta is one run of the `meta.table` factory of its plugin).
C2_FactoryOnce ==
    \A m1, m2 \in StoredMetas(TABLE_META) : m1.plugin = m2.plugin => m1 = m2

(***************************************************************************)
(* C3.  One plugin instance per (Table, class).                            *)
(***************************************************************************)
\* C3: the instance table.pluginOf(P) returned when the table meta stored under P
\* was manufactured (the meta records it) is the instance of that class that
\* table.pluginOf(P) finds in the plugin list the latest read of table.plugins
\* returned.
C3_OneInstance ==
    \A t \in Tables, P \in Classes :
        LET first == Stored(TABLE_META, TABLE_KEY[t], P)
            latest == pluginOf(cachedPlugins[t].value, P)
        IN  (first # <<>> /\ cachedPlugins[t].valid /\ latest # <<>>
                /\ latest[1].klass = first[1].plugin.klass) =>
                latest[1] = first[1].plugin

(***************************************************************************)
(* C4.  modify() keeps the table metas.                                    *)
(***************************************************************************)
C4_Step ==
    /\ TABLE_KEY' = TABLE_KEY
    /\ \A t \in Tables, P \in Classes :
          Stored(TABLE_META, TABLE_KEY[t], P) # <<>> =>
              LET after == ForTable(t, P)'
              IN  /\ after.status = "ok"
                  /\ after.value = Stored(TABLE_META, TABLE_KEY[t], P)[1]

C5_UnregisteredFatal ==
    /\ \A t \in Tables, P \in Classes :
          (PluginsGetter(t).status = "ok" /\ PluginOfNow(t, P) = <<>>) =>
              ForTable(t, P).status = "error"
    /\ \A column \in Columns, P \in Classes :
          (PluginsGetter(column.table).status = "ok" /\ PluginOfNow(column.table, P) = <<>>) =>
              ForColumn(column, P).status = "error"
    /\ \A row \in Rows, P \in Classes :
          (PluginsGetter(row.table).status = "ok" /\ PluginOfNow(row.table, P) = <<>>) =>
              ForRow(row, P).status = "error"

(***************************************************************************)
(* C6.  Feature resolution is first-match.                                 *)
(***************************************************************************)
\* C6: a meta that meta.withFeature.forTable / forColumn (E, f) manufactures is
\* manufactured by the first plugin of the current list whose features include f.
C6_FirstProvider ==
    /\ \A t \in Tables, f \in Features :
          LET read == PluginsGetter(t)
              out == withFeatureForTable(t, f, read)
          IN  (out.status = "ok" /\ out.called) =>
                  out.value.plugin = findPlugin(read.value, f)[1]
    /\ \A column \in Columns, f \in Features :
          LET read == PluginsGetter(column.table)
              out == withFeatureForColumn(column, f, read)
          IN  (out.status = "ok" /\ out.called) =>
                  out.value.plugin = findPlugin(read.value, f)[1]

(***************************************************************************)
(* C7.  An unresolved feature fails, listing the current features.         *)
(***************************************************************************)
\* the features of plugins i.. of the list, in order, each preceded by `sep`
RECURSIVE Listing(_, _, _, _)
Listing(plugins, i, j, sep) ==
    IF i > Len(plugins) THEN ""
    ELSE IF j > Len(featuresOf(plugins[i])) THEN Listing(plugins, i + 1, 1, sep)
    ELSE sep \o featuresOf(plugins[i])[j] \o Listing(plugins, i, j + 1, ", ")

NoProvider(plugins, f) ==
    \A i \in DOMAIN plugins : f \notin SeqToSet(featuresOf(plugins[i]))

Unresolved(plugins, f, out, map) ==
    /\ out.status = "error"
    /\ out.error = "Could not find plugin with feature: " \o f \o ". Available features: "
                   \o (IF Listing(plugins, 1, 1, "") = "" THEN "[none]"
                       ELSE Listing(plugins, 1, 1, ""))
    /\ out.value = NoMeta
    /\ out.map = map

\* C7: when no plugin of the table's current plugin list declares f,
\* meta.withFeature.forTable / forColumn (E, f) fails with 'Could not find plugin
\* with feature: f. Available features: ' followed by the features of the current
\* plugins in configuration order, or '[none]', and returns and stores no meta.
C7_Unresolved ==
    /\ \A t \in Tables, f \in Features :
          LET read == PluginsGetter(t)
          IN  (read.status = "ok" /\ NoProvider(read.value, f)) =>
                  Unresolved(read.value, f, FeatureForTable(t, f), TABLE_META)
    /\ \A column \in Columns, f \in Features :
          LET read == PluginsGetter(column.table)
          IN  (read.status = "ok" /\ NoProvider(read.value, f)) =>
                  Unresolved(read.value, f, FeatureForColumn(column, f), COLUMN_META)

\* the meta of a former provider of f is still stored, and the current list, which
\* has plugins, holds no provider of f
C7_Witness ==
    \E t \in Tables, f \in Features, P \in Classes :
        /\ Stored(TABLE_META, TABLE_KEY[t], P) # <<>>
        /\ f \in SeqToSet(featuresOf(Stored(TABLE_META, TABLE_KEY[t], P)[1].plugin))
        /\ PluginsGetter(t).status = "ok"
        /\ PluginsGetter(t).value # <<>>
        /\ NoProvider(PluginsGetter(t).value, f)

(***************************************************************************)
(* C8.  Per-entity isolation.                                              *)
(***************************************************************************)
Apart(a, b) == (a.status = "ok" /\ b.status = "ok") => a.value # b.value

\* C8: the metas of distinct Columns, of distinct Rows and of distinct Tables for a
\* class P are different instances, and so are the metas of one entity for
\* different classes P and Q.
C8_Isolation ==
    /\ \A a, b \in Columns, P \in Classes : a # b => Apart(ForColumn(a, P), ForColumn(b, P))
    /\ \A a, b \in Rows, P \in Classes : a # b => Apart(ForRow(a, P), ForRow(b, P))
    /\ \A a, b \in Tables, P \in Classes : a # b => Apart(ForTable(a, P), ForTable(b, P))
    /\ \A P, Q \in Classes : P # Q =>
          /\ \A a \in Columns : Apart(ForColumn(a, P), ForColumn(a, Q))
          /\ \A a \in Rows : Apart(ForRow(a, P), ForRow(a, Q))
          /\ \A a \in Tables : Apart(ForTable(a, P), ForTable(a, Q))

\* two tables hold a table meta of the same class each
C8_Witness ==
    \E a, b \in Tables, P \in Classes :
        /\ a # b
        /\ Stored(TABLE_META, TABLE_KEY[a], P) # <<>>
        /\ Stored(TABLE_META, TABLE_KEY[b], P) # <<>>

(***************************************************************************)
(* C9.  No leak across regenerations.                                      *)
(***************************************************************************)
Listed == UNION {SeqToSet(columns[t]) \cup SeqToSet(rows[t]) : t \in Tables}

C9_Own ==
    /\ \A column \in Columns, P \in Classes :
          ForColumn(column, P).status = "ok" => ForColumn(column, P).value.entity = column
    /\ \A row \in Rows, P \in Classes :
          ForRow(row, P).status = "ok" => ForRow(row, P).value.entity = row

C9_Fresh ==
    \A t \in Tables :
        /\ \A i \in DOMAIN columns'[t] :
              columns'[t][i] \notin Listed \cup heap => columns'[t][i] \notin DOMAIN COLUMN_META'
        /\ \A i \in DOMAIN rows'[t] :
              rows'[t][i] \notin Listed \cup heap => rows'[t][i] \notin DOMAIN ROW_META'

\* C9: a Column or Row that a regeneration puts in the list has no entry in its
\* store, so the first meta.forColumn / forRow for it constructs, and what
\* meta.forColumn / forRow returns for a Column or Row is always a meta made for
\* that very object, never one made for the object it replaced.
C9_NoLeak == []C9_Own /\ [][C9_Fresh]_vars

\* a replaced Column still holds its meta, and the Column that took its place has
\* a meta of the same class
C9_Witness ==
    \E t \in Tables, old \in heap, P \in Classes :
        \E i \in DOMAIN columns[t] :
            /\ old.kind = "column" /\ old.table = t /\ old.key = columns[t][i].key
            /\ Stored(COLUMN_META, old, P) # <<>>
            /\ Stored(COLUMN_META, columns[t][i], P) # <<>>

(***************************************************************************)
(* C10.  Dependency validation precedes instantiation.                     *)
(***************************************************************************)
\* a configured class requires a feature that no configured class provides
Unprovided(plugins) ==
    \E i \in DOMAIN plugins : \E r \in SeqToSet(StaticRequires(plugins[i])) :
        \A j \in DOMAIN plugins : r \notin SeqToSet(StaticFeatures(plugins[j]))

\* C10: with a configuration in which some plugin requires a feature that no
\* configured plugin provides, reading table.plugins fails with no plugin class
\* constructed, and no plugin list is produced or memoized.
C10_VerifiedFirst ==
    \A t \in Tables :
        (args[t].set /\ Unprovided(args[t].named.plugins)) =>
            LET read == PluginsGetter(t)
            IN  /\ read.status = "error"
                /\ read.built = 0
                /\ read.value = <<>>
                /\ ~read.memo.valid

\* a table with an owner is configured with StickyColumns and no provider of
\* 'columnVisibility', after a configuration that was evaluated
C10_Witness ==
    \E t \in Tables :
        /\ owner[t] /\ args[t].set /\ Unprovided(args[t].named.plugins)
        /\ evaluations[t] > 0

(***************************************************************************)
(* C11.  The plugin list is memoized and follows the configuration.        *)
(***************************************************************************)
\* the list `plugins` follows the entries of `config`, made for table t
Follows(t, plugins, config) ==
    /\ Len(plugins) = Len(config)
    /\ \A i \in DOMAIN config :
          IF IsClass(ClassOf(config[i]))
          THEN plugins[i].klass = ClassOf(config[i]) /\ plugins[i].table = t
          ELSE plugins[i] = PlainPlugin(config[i])

C11_Read ==
    \A t \in Tables :
        LET read == PluginsGetter(t)
        IN  /\ read.status = "ok" => Follows(t, read.value, args[t].named.plugins)
            /\ cachedPlugins[t].valid =>
                  /\ read.status = "ok"
                  /\ read.value = cachedPlugins[t].value
                  /\ read.built = 0

C11_Between ==
    \A t \in Tables :
        (cachedPlugins[t].valid /\ cachedPlugins'[t].valid) =>
            /\ cachedPlugins'[t].value = cachedPlugins[t].value
            /\ evaluations'[t] = evaluations[t]

OtherKeys(key) == PrefKeys \ {key}

\* C12, table scope: after preferences.forTable(t, klass).set(key, value) the
\* same facade's get(key) returns value, after delete(key) it returns
\* undefined, and what it returns for every other key is as before
C12_Table ==
    \A t \in Tables, klass \in PrefClasses, key \in PrefKeys :
        preferences[t].exists =>
            /\ \A value \in PrefValues :
                  PrefsForTableSet(t, klass, key, value) =>
                      /\ prefsForTableGet(t, klass, key)'.value = <<value>>
                      /\ \A other \in OtherKeys(key) :
                            prefsForTableGet(t, klass, other)'.value
                                = prefsForTableGet(t, klass, other).value
            /\ PrefsForTableDelete(t, klass, key) =>
                  /\ prefsForTableGet(t, klass, key)'.value = <<>>
                  /\ \A other \in OtherKeys(key) :
                        prefsForTableGet(t, klass, other)'.value
                            = prefsForTableGet(t, klass, other).value

\* C12, column scope: the same for preferences.forColumn(column, klass)
C12_Column ==
    \A column \in Columns, klass \in PrefClasses, key \in PrefKeys :
        preferences[column.table].exists =>
            /\ \A value \in PrefValues :
                  PrefsForColumnSet(column, klass, key, value) =>
                      /\ prefsForColumnGet(column, klass, key)'.value = <<value>>
                      /\ \A other \in OtherKeys(key) :
                            prefsForColumnGet(column, klass, other)'.value
                                = prefsForColumnGet(column, klass, other).value
            /\ PrefsForColumnDelete(column, klass, key) =>
                  /\ prefsForColumnGet(column, klass, key)'.value = <<>>
                  /\ \A other \in OtherKeys(key) :
                        prefsForColumnGet(column, klass, other)'.value
                            = prefsForColumnGet(column, klass, other).value

\* C12: preferences round trip. On one (entity, plugin class) scope, set(k, v)
\* followed by get(k) returns v, delete(k) followed by get(k) returns
\* undefined, and a write to k leaves every other key of the scope unchanged
C12_RoundTrip == [][C12_Table /\ C12_Column]_vars

\* a value was set and is read back in a table scope and in a column scope,
\* and a key that was set and deleted again reads undefined
C12_Witness ==
    /\ prefsForTableGet("t1", "StickyColumns", "k1").value = <<"v1">>
    /\ prefsForTableGet("t1", "StickyColumns", "k2").value = <<>>
    /\ \E column \in Columns :
          prefsForColumnGet(column, "Widths", "k2").value = <<"v2">>
    /\ persists["t1"] = MaxPersists
    /\ Cardinality(DOMAIN persisted["t1"]) = 2

\* C13: preference namespacing between plugins. For two different plugin
\* classes P and Q on the same table or column and the same key, set and
\* delete through Q's facade never change what P's facade reads
C13_Namespaced ==
    [][ /\ \A t \in Tables, P \in PrefClasses, key \in PrefKeys : \A Q \in PrefClasses \ {P} :
              preferences[t].exists =>
                  ((\/ \E value \in PrefValues : PrefsForTableSet(t, Q, key, value)
                    \/ PrefsForTableDelete(t, Q, key))
                   => prefsForTableGet(t, P, key)'.value = prefsForTableGet(t, P, key).value)
        /\ \A column \in Columns, P \in PrefClasses, key \in PrefKeys :
              \A Q \in PrefClasses \ {P} :
              preferences[column.table].exists =>
                  ((\/ \E value \in PrefValues : PrefsForColumnSet(column, Q, key, value)
                    \/ PrefsForColumnDelete(column, Q, key))
                   => prefsForColumnGet(column, P, key)'.value
                          = prefsForColumnGet(column, P, key).value) ]_vars

\* what a call returns and asks for: set and delete call persist(), get leaves
\* the storage as it is and does not call persist()
C14_Calls ==
    /\ \A t \in Tables, klass \in PrefClasses, key \in PrefKeys :
          preferences[t].exists =>
              /\ prefsForTableGet(t, klass, key).store = storage[t]
              /\ ~prefsForTableGet(t, klass, key).persist
              /\ prefsForTableDelete(t, klass, key).persist
              /\ \A value \in PrefValues : prefsForTableSet(t, klass, key, value).persist
    /\ \A column \in Columns, klass \in PrefClasses, key \in PrefKeys :
          preferences[column.table].exists =>
              /\ prefsForColumnGet(column, klass, key).store = storage[column.table]
              /\ ~prefsForColumnGet(column, klass, key).persist
              /\ prefsForColumnDelete(column, klass, key).persist
              /\ \A value \in PrefValues : prefsForColumnSet(column, klass, key, value).persist

\* a step that is a set or a delete runs persist() once, on the storage as the
\* call has left it; the storage never changes without persist() running once
C14_Step ==
    /\ \A t \in Tables :
          /\ storage'[t] # storage[t] => persists'[t] = persists[t] + 1
          /\ persists'[t] # persists[t] =>
                persists'[t] = persists[t] + 1 /\ persisted'[t] = storage'[t]
    /\ \A t \in Tables, klass \in PrefClasses, key \in PrefKeys :
          preferences[t].exists =>
              ((\/ \E value \in PrefValues : PrefsForTableSet(t, klass, key, value)
                \/ PrefsForTableDelete(t, klass, key))
               => persists'[t] = persists[t] + 1 /\ persisted'[t] = storage'[t])
    /\ \A column \in Columns, klass \in PrefClasses, key \in PrefKeys :
          preferences[column.table].exists =>
              ((\/ \E value \in PrefValues : PrefsForColumnSet(column, klass, key, value)
                \/ PrefsForColumnDelete(column, klass, key))
               => /\ persists'[column.table] = persists[column.table] + 1
                  /\ persisted'[column.table] = storage'[column.table])

\* C14: every set and every delete on a preferences facade is followed, within
\* the call and after the change of the store, by exactly one persist(); get
\* never changes the store and never calls persist()
C14_Persisted == []C14_Calls /\ [][C14_Step]_vars

\* persist() ran after a set and again after a delete that emptied the store
C14_Witness ==
    /\ persists["t1"] = 2
    /\ storage["t1"] = EmptyMap
    /\ persisted["t1"] = EmptyMap
    /\ preferences["t1"].exists

(***************************************************************************)
(* Options Resolver                                                        *)
(***************************************************************************)

\* the entries of the `plugins` list `config` that configure class `klass`
Configures(config, klass) == {i \in DOMAIN config : ClassOf(config[i]) = klass}

\* the tuples of a column's pluginOptions that configure `klass` with a provider
ColumnConfigures(column, klass) ==
    IF ColumnConfig(column).pluginOptions = <<>> THEN {}
    ELSE {tuple \in SeqToSet(ColumnConfig(column).pluginOptions[1]) :
              tuple[1] = klass /\ tuple[2] # "none"}

\* C15: options default to empty and never fail. options.forTable(t, P) of a
\* configured table returns {} when P is not in the configuration, and else
\* what the provider of P returns, {} when that is nothing; options.forColumn
\* does the same over the column's pluginOptions
C15_Defaulting ==
    /\ \A t \in Tables, klass \in Classes :
          args[t].set =>
              LET config == args[t].named.plugins
                  out == optionsForTable(t, klass)
              IN  /\ out.status = "ok"
                  /\ Configures(config, klass) = {} => out.value = <<{}>>
                  /\ \A fn \in {"compact", "wide"} :
                        (\E i \in Configures(config, klass) : ProviderOf(config[i]) = fn)
                            => out.value = CallProvider(fn)
                  /\ (\E i \in Configures(config, klass) :
                          CallProvider(ProviderOf(config[i])) = <<>>) => out.value = <<{}>>
    /\ \A column \in Columns, klass \in Classes :
          LET out == optionsForColumn(column, klass)
          IN  /\ out.status = "ok"
              /\ ColumnConfigures(column, klass) = {} => out.value = <<{}>>
              /\ \A tuple \in ColumnConfigures(column, klass) :
                    out.value = IF CallProvider(tuple[2]) = <<>> THEN <<{}>>
                                ELSE CallProvider(tuple[2])

\* a table whose configuration has a provider that returns nothing, and two
\* columns: one with providers, one that took its place without pluginOptions
C15_Witness ==
    /\ args["t1"].set
    /\ args["t1"].named.plugins = <<"Widths.with(nothing)">>
    /\ optionsForTable("t1", "Widths").value = <<{}>>
    /\ optionsForTable("t1", "Bare").value = <<{}>>
    /\ \E column \in Columns :
          /\ optionsForColumn(column, "Widths").value = <<{<<"density", "compact">>}>>
          /\ optionsForColumn(column, "Visibility").value = <<{}>>
          /\ optionsForColumn(column, "StickyColumns").value = <<{}>>
    /\ \E column \in Columns : ColumnConfig(column).pluginOptions = <<>>

\* C16: options are not cached. What options.forTable returns is what the
\* provider in the table's configuration returns now: after a modify() with
\* another provider for the plugin the next call returns that provider's result
C16_Reread ==
    [][\A t \in Tables, klass \in Classes :
          (args'[t].set /\ args'[t] # args[t]) =>
              LET config == args'[t].named.plugins
              IN  optionsForTable(t, klass)'.value =
                      IF Configures(config, klass) = {} THEN <<{}>>
                      ELSE <<OrEmpty(CallProvider(ProviderOf(
                               config[CHOOSE i \in Configures(config, klass) :
                                          \A j \in Configures(config, klass) : i <= j])))>>]_vars

\* the table was configured with Widths alone, its plugins were constructed and
\* a table meta made by that Widths plugin is stored; it is now configured with
\* the provider `wide`, which is what options.forTable returns
C16_Witness ==
    /\ args["t1"].set
    /\ args["t1"].named.plugins = <<"Bare", "Widths.with(wide)">>
    /\ \E stored \in StoredMetas(TABLE_META) :
          stored.plugin.klass = "Widths" /\ stored.plugin.index = 1
    /\ optionsForTable("t1", "Widths").value = <<{<<"density", "wide">>}>>

(***************************************************************************)
(* C18.  A missing meta factory is fatal.                                  *)
(***************************************************************************)
\* P is one of the classes the table is configured with
Registered(t, P) ==
    /\ args[t].set
    /\ \E i \in DOMAIN args[t].named.plugins : ClassOf(args[t].named.plugins[i]) = P

\* C18: for a plugin class P the table is configured with that declares no
\* `meta`, or no factory for the scope asked for, meta.forTable / forColumn /
\* forRow (E, P) fails and returns no meta
C18_MissingFactoryFatal ==
    /\ \A t \in Tables, P \in Classes :
          (Registered(t, P) /\ "table" \notin MetaFactories(P)) =>
              ForTable(t, P).status = "error" /\ ForTable(t, P).value = NoMeta
    /\ \A column \in Columns, P \in Classes :
          (Registered(column.table, P) /\ "column" \notin MetaFactories(P)) =>
              ForColumn(column, P).status = "error" /\ ForColumn(column, P).value = NoMeta
    /\ \A row \in Rows, P \in Classes :
          (Registered(row.table, P) /\ "row" \notin MetaFactories(P)) =>
              ForRow(row, P).status = "error" /\ ForRow(row, P).value = NoMeta

(***************************************************************************)
(* C19.  pluginOf returns the first instance in list order.                *)
(***************************************************************************)
\* C19: table.pluginOf(K) returns the first element, in the order of the list,
\* of the table's current plugin list that is an instance of K, and undefined
\* when there is none; what it returns is an element of the current list
C19_FirstInstance ==
    \A t \in Tables, K \in Classes :
        LET read == PluginsGetter(t)
            found == pluginOf(read.value, K)
        IN  read.status = "ok" =>
                /\ found # <<>> =>
                      \E i \in DOMAIN read.value :
                          /\ read.value[i] = found[1]
                          /\ DerivesFrom(read.value[i].klass, K)
                          /\ \A j \in 1..(i - 1) : ~DerivesFrom(read.value[j].klass, K)
                /\ found = <<>> =>
                      \A i \in DOMAIN read.value : ~DerivesFrom(read.value[i].klass, K)

\* the memoized list holds a SubVisibility before a Visibility, and
\* pluginOf(Visibility) is the SubVisibility, pluginOf(Bare) is undefined
C19_Witness ==
    /\ cachedPlugins["t1"].valid
    /\ args["t1"].named.plugins = <<"Widths", "SubVisibility", "Visibility">>
    /\ PluginOfNow("t1", "Visibility") = <<cachedPlugins["t1"].value[2]>>
    /\ PluginOfNow("t1", "Bare") = <<>>

OffsetNow(column) ==
    LET read == PluginsGetter(column.table)
        own == metaForColumn(column, "StickyColumns", read)
    IN  IF own.status # "ok"
        THEN OffsetOutcome("error", own.error, <<>>, TABLE_META, <<>>, FALSE)
        ELSE offset(own.value, column, Reread(read))

\* the width a column adds to an offset: its width, 0 when it has none
Contributes(key) ==
    IF widths[key].has /\ widths[key].width # <<>> THEN widths[key].width[1] ELSE 0

\* the sum of the widths of the columns shown at the places `places` of the list
Total(list, places) ==
    Sum([i \in DOMAIN list |-> Contributes(list[i].key)],
        {i \in places : list[i].key \notin hidden})

\* the column with key `key` of table t1
ColumnOf(key) == columns["t1"][IndexIn(StickyKeys, key)]

\* the offset of a sticky column is the sum, as '<sum>px', of the widths of the
\* columns shown before it ('left') or after it ('right'), a column without width
\* adding 0; a column that is not sticky has no offset
C17_Sum ==
    \A t \in Tables : \A i \in DOMAIN columns[t] :
        LET column == columns[t][i]
            out == OffsetNow(column)
        IN  position(column).status = "ok" =>
                /\ out.status = "ok"
                /\ position(column).value = "none" => out.value = <<>>
                /\ position(column).value = "left" =>
                      out.value = <<Px(Total(columns[t], 1..(i - 1)))>>
                /\ position(column).value = "right" =>
                      out.value = <<Px(Total(columns[t], (i + 1)..Len(columns[t])))>>

\* the example: widths 50, 100, 75
C17_Example ==
    (/\ widths = [key \in SeqToSet(StickyKeys) |->
                     <<Width(50), Width(100), Width(75)>>[IndexIn(StickyKeys, key)]]
     /\ position(ColumnOf("middle")).value = "left"
     /\ position(ColumnOf("last")).value = "right")
    => /\ hidden = {} => OffsetNow(ColumnOf("middle")).value = <<"50px">>
       /\ OffsetNow(ColumnOf("last")).value = <<"0px">>
       /\ hidden = {"first"} => OffsetNow(ColumnOf("middle")).value = <<"0px">>

\* C17: sticky offset. For sticky 'left' the offset is the sum of the widths,
\* through the 'columnWidth' feature, of the columns the 'columnVisibility'
\* provider reports before the column, rendered '<sum>px' ('right': after it); a
\* column whose meta has no width adds 0; a column that is not sticky has no
\* offset; with widths 50, 100, 75 the middle column sticky 'left' has '50px',
\* the last column sticky 'right' has '0px', and the middle column has '0px'
\* once the first column is hidden
C17_StickyOffset == C17_Sum /\ C17_Example

\* widths 50, 100, 75; the first column was hidden after the offset of the middle
\* column had been read, and the offsets memoized now are '0px' for both the
\* middle column, sticky 'left', and the last one, sticky 'right'
C17_Witness ==
    /\ widths["first"] = Width(50)
    /\ widths["middle"] = Width(100)
    /\ hidden = {"first"}
    /\ position(ColumnOf("middle")).value = "left"
    /\ position(ColumnOf("last")).value = "right"
    /\ Stored(COLUMN_META, ColumnOf("first"), "Widths") # <<>>
    /\ \A key \in {"middle", "last"} :
          /\ Stored(COLUMN_META, ColumnOf(key), "StickyColumns") # <<>>
          /\ Has(offsets, Stored(COLUMN_META, ColumnOf(key), "StickyColumns")[1])
          /\ offsets[Stored(COLUMN_META, ColumnOf(key), "StickyColumns")[1]] = <<"0px">>

(***************************************************************************)
(* C21.  A failed meta access stores nothing.                              *)
(***************************************************************************)
\* the accessor outcome `out` on the store `map`: a failure returns no meta and
\* leaves the store as it is
Nothing(map, out) == out.status = "error" => out.value = NoMeta /\ out.map = map

\* the table's current plugin list holds an instance for P that declares a factory
\* for `scope`
Valid(t, P, scope) ==
    /\ PluginOfNow(t, P) # <<>>
    /\ scope \in MetaFactories(PluginOfNow(t, P)[1].klass)

\* the outcome `out` of an access to (rootKey, P), nothing being stored for it:
\* the factory runs and what it makes is returned and stored
Made(map, rootKey, P, out) ==
    Stored(map, rootKey, P) = <<>> =>
        /\ out.status = "ok" /\ out.called
        /\ Stored(out.map, rootKey, P) = <<out.value>>
        /\ Kept(map, out.map)

C21_Calls ==
    /\ \A t \in Tables, P \in Classes :
          /\ Nothing(TABLE_META, ForTable(t, P))
          /\ Valid(t, P, "table") => Made(TABLE_META, TABLE_KEY[t], P, ForTable(t, P))
    /\ \A column \in Columns, P \in Classes :
          /\ Nothing(COLUMN_META, ForColumn(column, P))
          /\ Valid(column.table, P, "column") =>
                Made(COLUMN_META, column, P, ForColumn(column, P))
    /\ \A row \in Rows, P \in Classes :
          /\ Nothing(ROW_META, ForRow(row, P))
          /\ Valid(row.table, P, "row") => Made(ROW_META, row, P, ForRow(row, P))

\* no step removes or replaces a stored entry of an entity that is held, and
\* no step stores an entry without instance
C21_Step ==
    /\ Kept(TABLE_META, TABLE_META')
    /\ Kept(COLUMN_META, COLUMN_META')
    /\ Kept(ROW_META, ROW_META')
    /\ NoMeta \notin AllMetas'

\* C21: a failed meta access leaves no meta behind. When meta.forTable /
\* forColumn / forRow (E, P) fails, nothing is stored under (E, P) and every
\* stored entry is unchanged; an access to (E, P) made when the plugin list
\* holds a plugin for P with a factory for the scope, nothing being stored for
\* (E, P), runs the factory and succeeds
C21_NoPartialMeta == []C21_Calls /\ [][C21_Step]_vars

\* the plugin list was read and memoized by an access for Widths that failed, the
\* table being configured without plugins then; the table is configured with
\* Widths now, nothing is stored for it, and the next access makes its meta
C21_Witness ==
    /\ evaluations["t1"] = 1
    /\ ~cachedPlugins["t1"].valid
    /\ args["t1"].named.plugins = <<"Widths">>
    /\ TABLE_META = EmptyMap
    /\ \E row \in Rows : ForRow(row, "Widths").status = "ok"
    /\ ForTable("t1", "Widths").status = "ok" /\ ForTable("t1", "Widths").called
    /\ ForTable("t1", "Bare").status = "error"

(***************************************************************************)
(* C22.  Meta constructors that call the accessor they are constructed by. *)
(***************************************************************************)
\* C22: re-entrant access keeps at-most-one construction. Also when the meta
\* constructor of P calls the accessor for the (E, P) it is constructed for,
\* every stored meta is the one instance constructed for its place (none was
\* made, stored and then overwritten), and the access to (E, P) of a configured
\* P returns an instance
C22_AtMostOne ==
    /\ \A stored \in AllMetas : stored.n = 1
    /\ \A t \in Tables, P \in NestedClasses :
          Valid(t, P, "table") => ForTable(t, P).status = "ok"
    /\ \A column \in Columns, P \in NestedClasses :
          Valid(column.table, P, "column") => ForColumn(column, P).status = "ok"

\* the preferences key and adapter that configuration `named` of table t names
C23_Key(t, named) ==
    IF "preferences" \in DOMAIN named /\ named.preferences # <<>>
       /\ named.preferences[1].key # <<>>
    THEN named.preferences[1].key[1]
    ELSE guidFor(t)

C23_Adapter(named) ==
    IF "preferences" \in DOMAIN named /\ named.preferences # <<>>
    THEN named.preferences[1].adapter
    ELSE <<>>

\* C23, state part: a table has preferences exactly when modify() has run on it
C23_Exists == \A t \in Tables : preferences[t].exists <=> args[t].set

\* C23, step part: existing preferences are never replaced; the step that
\* creates them takes key and adapter from the configuration it assigns and
\* leaves the scroll container alone; a modify() on a table that has preferences
\* leaves every stored value readable and resets the attached container
C23_Step ==
    \A t \in Driven :
        /\ preferences[t].exists => preferences'[t] = preferences[t]
        /\ (~preferences[t].exists /\ preferences'[t].exists) =>
              /\ preferences'[t].key = C23_Key(t, args'[t].named)
              /\ preferences'[t].adapter = C23_Adapter(args'[t].named)
              /\ scrollContainerElement'[t] = scrollContainerElement[t]
        /\ \A named \in NamedConfigs :
              (preferences[t].exists /\ ModifyNamed(t, named)) =>
                  /\ \A klass \in PrefClasses, key \in PrefKeys :
                        (prefsForTableGet(t, klass, key).value)' =
                            prefsForTableGet(t, klass, key).value
                  /\ scrollContainerElement[t].attached =>
                        scrollContainerElement'[t].scrollTop = 0

\* C23: the preferences object of a table is created exactly once, by the first
\* modify(), from that call's preferences key (by default the table's guid) and
\* adapter; no later modify() replaces it, whatever key or adapter it names, so
\* values written before a reconfiguration are read after it; every modify()
\* after the first resets the scrollTop of the attached scroll container to 0,
\* and the first does not
C23_PreferencesOnce == []C23_Exists /\ [][C23_Step]_vars

\* a table reconfigured, after its container was attached, with a configuration
\* that names another key and adapter than its preferences have: the preferences
\* are the first ones, the value written is still read, the container is at 0
C23_Witness ==
    /\ preferences["t1"].exists
    /\ preferences["t1"].key # C23_Key("t1", args["t1"].named)
    /\ preferences["t1"].adapter # C23_Adapter(args["t1"].named)
    /\ scrollContainerElement["t1"].attached
    /\ ~cachedPlugins["t1"].valid
    /\ scrollContainerElement["t1"].scrollTop = 0
    /\ prefsForTableGet("t1", "Widths", "k1").value = <<"v1">>

\* C24, state part: two Columns of one table with the same key read the same
\* column-scoped value, whichever of them is listed and whichever was replaced
C24_SameKey ==
    \A c \in Columns, c2 \in Columns :
        (c2.table = c.table /\ c2.key = c.key) =>
            \A klass \in PrefClasses, key \in PrefKeys :
                prefsForColumnGet(c2, klass, key).value = prefsForColumnGet(c, klass, key).value

\* C24, step part: a value set through preferences.forColumn(c, P) is read through
\* every Column of c's key, changes nothing that a Column of another key reads
\* and nothing that preferences.forTable(table, P) reads; regenerating a column
\* changes nothing that a Column reads
C24_Step ==
    /\ \A c \in Columns, klass \in PrefClasses, key \in PrefKeys, value \in PrefValues :
          PrefsForColumnSet(c, klass, key, value) =>
              /\ \A c2 \in Columns :
                    (c2.table = c.table /\ c2.key = c.key) =>
                        (prefsForColumnGet(c2, klass, key).value)' = <<value>>
              /\ \A c3 \in Columns, other \in PrefKeys :
                    (c3.table = c.table /\ c3.key # c.key) =>
                        (prefsForColumnGet(c3, klass, other).value)'
                            = prefsForColumnGet(c3, klass, other).value
              /\ \A other \in PrefKeys :
                    (prefsForTableGet(c.table, klass, other).value)'
                        = prefsForTableGet(c.table, klass, other).value
    /\ \A t \in Driven :
          (\E i \in DOMAIN columns[t] : RegenerateKeyed(t, i)) =>
              \A c \in Columns, klass \in PrefClasses, key \in PrefKeys :
                  (prefsForColumnGet(c, klass, key).value)'
                      = prefsForColumnGet(c, klass, key).value

\* C24: column-scoped preferences are addressed by the column's key, not by the
\* Column object: a value set through preferences.forColumn(c, P) is returned by
\* get through preferences.forColumn(c2, P) for every Column c2 of the table
\* with c's key, the Column that replaces c when the columns are regenerated
\* among them; it is never returned for a column of another key and never
\* through preferences.forTable(table, P)
C24_ByColumnKey == []C24_SameKey /\ [][C24_Step]_vars

\* the first column was replaced after a value was set through it: the old and
\* the new Column both read the value, the other columns and the table do not
C24_Witness ==
    \E old \in heap :
        /\ old.kind = "column" /\ old.table = "t1" /\ old.key = "first"
        /\ columns["t1"][1].key = "first" /\ columns["t1"][1] # old
        /\ prefsForColumnGet(old, "Widths", "k1").value = <<"v1">>
        /\ prefsForColumnGet(columns["t1"][1], "Widths", "k1").value = <<"v1">>
        /\ prefsForColumnGet(columns["t1"][2], "Widths", "k1").value = <<>>
        /\ prefsForColumnGet(columns["t1"][3], "Widths", "k1").value = <<>>
        /\ prefsForTableGet("t1", "Widths", "k1").value = <<>>

=============================================================================
